---- MODULE Spec2Model ----
(***************************************************************************)
(* Model of the prompt playground of prompt-manager: the fetch-based SSE   *)
(* reader ApiService.testPromptStream (frontend/src/services/api.ts) and   *)
(* the TestPrompt page that drives it (handleTest, the stream callbacks,   *)
(* persistHistory and the test-history list).                              *)
(*                                                                         *)
(* Text is a sequence of one-character strings, so that the reader's       *)
(* split / trim / startsWith / substring / JSON.parse pipeline is computed *)
(* character by character, and a transport read may end inside a line.     *)
(***************************************************************************)
EXTENDS Integers, Sequences, FiniteSets, TLC

(***************************************************************************)
(* Bounds of the model.                                                    *)
(***************************************************************************)
MaxTests == 2
MaxHistoryOps == 2
MaxRequests == 4
MaxSettingsOps == 4
MaxProviders == 3
MaxApiCalls == 3

(***************************************************************************)
(* Program constants.                                                      *)
(***************************************************************************)
HistoryLimit == 30
LoadLimit == 30

(***************************************************************************)
(* String helpers (JavaScript String methods on character sequences).      *)
(***************************************************************************)
NL == "\n"

IsWhitespace(c) == c \in {" ", "\n", "\r", "\t"}

RECURSIVE TrimStart(_)
TrimStart(s) ==
  IF s = << >> THEN << >>
  ELSE IF IsWhitespace(Head(s)) THEN TrimStart(Tail(s)) ELSE s

RECURSIVE TrimEnd(_)
TrimEnd(s) ==
  IF s = << >> THEN << >>
  ELSE IF IsWhitespace(s[Len(s)]) THEN TrimEnd(SubSeq(s, 1, Len(s) - 1)) ELSE s

Trim(s) == TrimEnd(TrimStart(s))

StartsWith(s, p) == Len(s) >= Len(p) /\ SubSeq(s, 1, Len(p)) = p

Substring(s, n) == SubSeq(s, n + 1, Len(s))

IndexOf(s, c) ==
  IF \E i \in 1..Len(s) : s[i] = c
  THEN CHOOSE i \in 1..Len(s) : s[i] = c /\ \A j \in 1..(i - 1) : s[j] # c
  ELSE 0

RECURSIVE Split(_)
Split(s) ==
  LET i == IndexOf(s, NL)
  IN IF i = 0 THEN << s >>
     ELSE << SubSeq(s, 1, i - 1) >> \o Split(SubSeq(s, i + 1, Len(s)))

RECURSIVE Flatten(_)
Flatten(ss) == IF ss = << >> THEN << >> ELSE Head(ss) \o Flatten(Tail(ss))

(***************************************************************************)
(* The SSE wire format.                                                    *)
(***************************************************************************)
DataTag == << "d", "a", "t", "a", ":" >>
ErrorEventLine == << "e", "v", "e", "n", "t", ":", "e", "r", "r", "o", "r" >>
TextKey == << "\"", "t", "e", "x", "t", "\"" >>

Envelope(t) == << "{" >> \o TextKey \o << ":", "\"" >> \o t \o << "\"", "}" >>
DataLine(payload) == DataTag \o << " " >> \o payload \o << NL >>
TextEvent(t) == DataLine(Envelope(t))
ErrorEvent(msg) == ErrorEventLine \o << NL >> \o DataTag \o msg \o << NL, NL >>

(***************************************************************************)
(* JSON.parse(content) followed by the test                                *)
(*   json && typeof json === 'object' && 'text' in json                    *)
(* for the texts the model's wire can carry: the parse yields an object    *)
(* with a text member exactly for  { "text" : "<chars>" }  (whitespace     *)
(* allowed between the tokens, no quote or backslash inside the chars).    *)
(* Every other content either fails to parse or parses to a value without  *)
(* a text member; both take the raw-text fallback.                         *)
(***************************************************************************)
NoJson == [ok |-> FALSE, text |-> << >>]

JsonTextMember(content) ==
  LET s0 == Trim(content) IN
  IF ~StartsWith(s0, << "{" >>) THEN NoJson ELSE
  LET s1 == TrimStart(Tail(s0)) IN
  IF ~StartsWith(s1, TextKey) THEN NoJson ELSE
  LET s2 == TrimStart(Substring(s1, Len(TextKey))) IN
  IF ~StartsWith(s2, << ":" >>) THEN NoJson ELSE
  LET s3 == TrimStart(Tail(s2)) IN
  IF ~StartsWith(s3, << "\"" >>) THEN NoJson ELSE
  LET s4 == Tail(s3)
      q  == IndexOf(s4, "\"") IN
  IF q = 0 THEN NoJson ELSE
  LET body == SubSeq(s4, 1, q - 1)
      rest == TrimStart(Substring(s4, q)) IN
  IF rest = << "}" >> /\ \A i \in 1..Len(body) : body[i] \notin {"\\", "\n", "\r", "\t"}
  THEN [ok |-> TRUE, text |-> body]
  ELSE NoJson

(***************************************************************************)
(* The body of testPromptStream's read loop for one decoded chunk          *)
(* (api.ts 168-199): the arguments of the onData calls it makes, in order. *)
(***************************************************************************)
ProcessLine(line) ==
  LET trimmedLine == Trim(line) IN
  IF trimmedLine = << >> THEN << >>
  ELSE IF StartsWith(trimmedLine, DataTag)
  THEN LET data    == Substring(trimmedLine, 5)
           content == IF StartsWith(data, << " " >>) THEN Substring(data, 1) ELSE data
           json    == JsonTextMember(content)
       IN IF content = << >> THEN << >>
          ELSE IF json.ok THEN << json.text >>
          ELSE << content >>
  ELSE << >>

RECURSIVE ProcessLines(_)
ProcessLines(lines) ==
  IF lines = << >> THEN << >>
  ELSE ProcessLine(Head(lines)) \o ProcessLines(Tail(lines))

ProcessChunk(chunk) == ProcessLines(Split(chunk))

(***************************************************************************)
(* State.                                                                  *)
(***************************************************************************)
VARIABLES
  id,                 \* useParams().id of the page ("" when absent)
  transport,          \* how the network cuts a body into reads
  providers,          \* TestPrompt.providers
  providerLoading,    \* TestPrompt.providerLoading
  response,           \* TestPrompt.response
  responseRef,        \* TestPrompt.responseRef.current
  loading,            \* TestPrompt.loading
  streamAbort,        \* TestPrompt.streamAbort: 0 (null) or the stream it aborts
  histories,          \* TestPrompt.histories
  historyLoading,     \* TestPrompt.historyLoading
  selectedHistoryId,  \* TestPrompt.selectedHistoryId (0 is null)
  editingHistoryId,   \* TestPrompt.editingHistoryId (0 is null)
  editingTitle,       \* TestPrompt.editingTitle
  historyMutation,    \* TestPrompt.historyMutation
  streams,            \* one record per call of testPromptStream
  requests,           \* number of fetch calls to /test-prompt
  saves,              \* savePromptTestHistory requests in flight
  loads,              \* getPromptTestHistories requests in flight
  deletes,            \* deletePromptTestHistory requests in flight
  renames,            \* updatePromptTestHistory requests in flight
  store,              \* the server's test histories of the prompt, newest first
  nextId,             \* the id the server gives the next history record
  used,               \* how many test starts, history-panel actions and save requests were made
  messages,           \* TestPrompt.messages
  variables,          \* TestPrompt.variables
  variableValues,     \* TestPrompt.variableValues
  variablePrefix,     \* TestPrompt.variablePrefix
  variableSuffix,     \* TestPrompt.variableSuffix
  tests,              \* one record per start of handleTest: the constants of its closure
  payloads,           \* the server's test histories: the playground fields of each record, by id
  projects,           \* the server's projects
  prompts,            \* the server's prompts
  promptHistory,      \* the server's prompt history entries, in the order written
  reply,              \* the server's answer to the last request on projects and prompts
  settingsPage,       \* Settings: loading, saving, providers, error
  settingsRequests,   \* Settings: getLLMProviders and saveLLMProviders calls in flight
  llmBackend,         \* the server's provider list and settings
  llmReply            \* outcome of the last getLLMProviders or saveLLMProviders call

vars == << id, transport, providers, providerLoading, response, responseRef,
           loading, streamAbort, histories, historyLoading, selectedHistoryId,
           editingHistoryId, editingTitle, historyMutation, streams, requests,
           saves, loads, deletes, renames, store, nextId, used, messages,
           variables, variableValues, variablePrefix, variableSuffix, tests,
           payloads, projects, prompts, promptHistory, reply, settingsPage,
           settingsRequests, llmBackend, llmReply >>

playVars    == << messages, variables, variableValues, variablePrefix, variableSuffix >>
backendVars == << projects, prompts, promptHistory, reply >>
settingsVars == << settingsPage, settingsRequests, llmBackend, llmReply >>

pageVars    == << id, transport, providers, providerLoading >>
bufferVars  == << response, responseRef >>
runVars     == << loading, streamAbort >>
editVars    == << editingHistoryId, editingTitle >>
serverVars  == << store, nextId >>

NoMutation == [id |-> 0, type |-> "none"]

HistoryRecord(hid, resp, title) == [id |-> hid, response |-> resp, title |-> title]

(***************************************************************************)
(* Inputs: what the server may answer to /test-prompt, and what it holds.  *)
(***************************************************************************)
TextsTwo   == << << "a" >>, << "b" >> >>
TextsBlank == << << " " >> >>
TextsNone  == << >>
UpstreamError == << "x" >>

EventsOf(texts) == Flatten([i \in 1..Len(texts) |-> TextEvent(texts[i])])

\* Single lines, each the whole body of a response.
ProbeLines ==
  { DataTag \o << " " >> \o Envelope(<< "a" >>),
    DataTag \o Envelope(<< "a" >>),
    DataTag \o << " ", "{", " " >> \o TextKey \o << " ", ":", " ", "\"", "a", "\"", " ", "}" >>,
    DataTag \o << " " >> \o Envelope(<< >>),
    DataTag \o << " " >> \o Envelope(<< " ", "a", " " >>),
    DataTag \o << " ", "{", "\"", "t", "\"", ":", "\"", "a", "\"", "}" >>,
    DataTag \o << " ", "a" >>,
    DataTag \o << "a" >>,
    DataTag \o << " ", " ", "a" >>,
    DataTag \o << " ", "a", " " >>,
    DataTag \o << " ", "a", "\r" >>,
    DataTag \o << " ", "a", " ", "b" >>,
    DataTag \o << " ", " " >>,
    DataTag \o << " " >>,
    DataTag,
    << " " >> \o DataTag \o << " ", "a" >>,
    << "\t" >> \o DataTag \o << "a" >>,
    ErrorEventLine,
    << "e", "v", "e", "n", "t", ":", " ", "a" >>,
    << ":", "a" >>,
    << "d", "a", "t", "a" >>,
    << "a" >>,
    << " " >>,
    << >> }

ProbeBodies == {line \o << NL >> : line \in ProbeLines}

BodyTwo   == EventsOf(TextsTwo)
BodyError == ErrorEvent(UpstreamError)
BodyBlank == EventsOf(TextsBlank)
BodyEmpty == EventsOf(TextsNone)
Bodies    == CASE transport = "byte"  -> {BodyTwo, BodyError, BodyBlank, BodyEmpty}
               [] transport = "line"  -> {BodyTwo, BodyBlank}
               [] transport = "event" -> {BodyTwo}
               [] transport = "whole" -> ProbeBodies

FailureMessages ==
  {"API request failed", "Response body is not readable", "Failed to fetch"}

InitialStored == {HistoryLimit}
InitialStore(n) == [i \in 1..n |-> HistoryRecord(n + 1 - i, << "h" >>, "")]

Min(a, b) == IF a < b THEN a ELSE b
Take(s, n) == SubSeq(s, 1, Min(n, Len(s)))
Ids(list) == {list[i].id : i \in 1..Len(list)}

(***************************************************************************)
(* Records of a stream: the calls it made to its three callbacks, and the  *)
(* mark of the call of its abort function.                                 *)
(***************************************************************************)
DataCall(t)   == [kind |-> "data", text |-> t, msg |-> ""]
ErrorCall(m)  == [kind |-> "error", text |-> << >>, msg |-> m]
CompleteCall  == [kind |-> "complete", text |-> << >>, msg |-> ""]
AbortMark     == [kind |-> "abort", text |-> << >>, msg |-> ""]
DataCalls(texts) == [i \in 1..Len(texts) |-> DataCall(texts[i])]

NewStream ==
  [status |-> "pending", wire |-> << >>, body |-> << >>,
   calls |-> << >>, completedWith |-> << >>, saveReqs |-> 0]

Active(st) == st.status \in {"pending", "open"}

(***************************************************************************)
(* The playground's messages (part_001 12-16, 63-66). An id is the pair    *)
(* of the role and the number that follow each other in the id string;     *)
(* Date.now() is Epoch plus the number of user actions made so far.        *)
(***************************************************************************)
Mid(role, stamp) == [role |-> role, stamp |-> stamp]
NoId == Mid("", 0)
Message(mid, role, content) == [id |-> mid, role |-> role, content |-> content]

Epoch == 1000
Now == Epoch + used.ops

InitialMessages ==
  << Message(Mid("system", 1), "system", << >>),
     Message(Mid("user", 1), "user", << >>) >>

PromptContent == << "s" >>

LoadPromptInto(prev, content) ==
  IF prev # << >> /\ prev[1].role = "system"
  THEN [prev EXCEPT ![1].content = content]
  ELSE << Message(Mid("system", Now), "system", content) >> \o prev

DefaultPrefix == << "{", "{" >>
DefaultSuffix == << "}", "}" >>
NoValues == [v \in {} |-> << >>]

(***************************************************************************)
(* The variables effect (part_001 111-138): the matches of the regular     *)
(* expression  prefix \s* (.+?) \s* suffix  with flag g. A match at         *)
(* position i is described by the lengths a, g, b of the leading           *)
(* whitespace, the group and the trailing whitespace; the engine prefers   *)
(* the longest a, then the shortest group, then the longest b.             *)
(***************************************************************************)
IsLineTerminator(c) == c \in {"\n", "\r"}

PlaceholderMatches(s, i, p, q) ==
  {t \in (0..Len(s)) \X (1..Len(s)) \X (0..Len(s)) :
     LET j == i + Len(p)
         e == j + t[1] + t[2] + t[3]
     IN /\ e + Len(q) - 1 <= Len(s)
        /\ SubSeq(s, i, j - 1) = p
        /\ \A m \in j..(j + t[1] - 1) : IsWhitespace(s[m])
        /\ \A m \in (j + t[1])..(j + t[1] + t[2] - 1) : ~IsLineTerminator(s[m])
        /\ \A m \in (j + t[1] + t[2])..(e - 1) : IsWhitespace(s[m])
        /\ SubSeq(s, e, e + Len(q) - 1) = q}

PreferredPlaceholder(M) ==
  CHOOSE t \in M : \A u \in M :
    \/ t[1] > u[1]
    \/ t[1] = u[1] /\ t[2] < u[2]
    \/ t[1] = u[1] /\ t[2] = u[2] /\ t[3] >= u[3]

RECURSIVE MatchesFrom(_, _, _, _)
MatchesFrom(s, i, p, q) ==
  IF i > Len(s) THEN << >>
  ELSE LET M == PlaceholderMatches(s, i, p, q) IN
       IF M = {} THEN MatchesFrom(s, i + 1, p, q)
       ELSE LET t == PreferredPlaceholder(M)
                j == i + Len(p)
            IN << Trim(SubSeq(s, j + t[1], j + t[1] + t[2] - 1)) >>
               \o MatchesFrom(s, j + t[1] + t[2] + t[3] + Len(q), p, q)

AddAll(names) ==
  LET F[k \in 0..Len(names)] ==
        IF k = 0 THEN << >>
        ELSE IF \E m \in 1..Len(F[k - 1]) : F[k - 1][m] = names[k]
             THEN F[k - 1]
             ELSE Append(F[k - 1], names[k])
  IN F[Len(names)]

ExtractVariables(msgs, p, q) ==
  AddAll(Flatten([i \in 1..Len(msgs) |-> MatchesFrom(msgs[i].content, 1, p, q)]))

VariablesEffect(old, msgs, p, q) ==
  IF p = << >> \/ q = << >> THEN old ELSE ExtractVariables(msgs, p, q)

(***************************************************************************)
(* handleTest's snapshots and variable replacement (part_001 474-515):     *)
(* for each variable in turn, String.replace with the regular expression   *)
(* prefix \s* name \s* suffix  (flag g) and the value as the replacement   *)
(* string, in which $$, $&, $` and $' are replacement patterns.            *)
(***************************************************************************)
MessageSnapshot(msgs, timestamp) ==
  [i \in 1..Len(msgs) |->
     [msgs[i] EXCEPT !.id = IF @ = NoId THEN Mid(msgs[i].role, timestamp + i - 1) ELSE @]]

NameMatches(s, i, p, v, q) ==
  {t \in (0..Len(s)) \X (0..Len(s)) :
     LET j == i + Len(p)
         k == j + t[1] + Len(v)
         e == k + t[2]
     IN /\ e + Len(q) - 1 <= Len(s)
        /\ SubSeq(s, i, j - 1) = p
        /\ \A m \in j..(j + t[1] - 1) : IsWhitespace(s[m])
        /\ SubSeq(s, j + t[1], k - 1) = v
        /\ \A m \in k..(e - 1) : IsWhitespace(s[m])
        /\ SubSeq(s, e, e + Len(q) - 1) = q}

PreferredName(M) ==
  CHOOSE t \in M : \A u \in M : t[1] > u[1] \/ (t[1] = u[1] /\ t[2] >= u[2])

RECURSIVE ExpandReplacement(_, _, _, _)
ExpandReplacement(value, s, from, to) ==
  IF value = << >> THEN << >>
  ELSE IF Head(value) = "$" /\ Len(value) >= 2 /\ value[2] \in {"$", "&", "`", "'"}
  THEN (CASE value[2] = "$" -> << "$" >>
          [] value[2] = "&" -> SubSeq(s, from, to - 1)
          [] value[2] = "`" -> SubSeq(s, 1, from - 1)
          [] value[2] = "'" -> SubSeq(s, to, Len(s)))
       \o ExpandReplacement(Substring(value, 2), s, from, to)
  ELSE << Head(value) >> \o ExpandReplacement(Tail(value), s, from, to)

RECURSIVE ReplaceFrom(_, _, _, _, _, _)
ReplaceFrom(s, i, p, v, q, value) ==
  IF i > Len(s) THEN << >>
  ELSE LET M == NameMatches(s, i, p, v, q) IN
       IF M = {} THEN << s[i] >> \o ReplaceFrom(s, i + 1, p, v, q, value)
       ELSE LET t  == PreferredName(M)
                to == i + Len(p) + t[1] + Len(v) + t[2] + Len(q)
            IN ExpandReplacement(value, s, i, to) \o ReplaceFrom(s, to, p, v, q, value)

ValueOf(values, v) == IF v \in DOMAIN values THEN values[v] ELSE << >>

RECURSIVE ReplaceVariables(_, _, _, _, _)
ReplaceVariables(content, names, values, p, q) ==
  IF names = << >> THEN content
  ELSE ReplaceVariables(ReplaceFrom(content, 1, p, Head(names), q, ValueOf(values, Head(names))),
                        Tail(names), values, p, q)

ApiMessages(snapshot, names, values, p, q) ==
  [i \in 1..Len(snapshot) |->
     [role    |-> snapshot[i].role,
      content |-> IF p # << >> /\ q # << >>
                  THEN ReplaceVariables(snapshot[i].content, names, values, p, q)
                  ELSE snapshot[i].content]]

(***************************************************************************)
(* The playground fields of a test history record (part_000 48-69), as     *)
(* persistHistory sends them (part_001 391-411).                           *)
(***************************************************************************)
Payload(msgs, values, p, q) ==
  [messages |-> msgs, variable_values |-> values,
   variable_prefix |-> p, variable_suffix |-> q]

LoadedMessages == LoadPromptInto(InitialMessages, PromptContent)

InitialPayloads(n) ==
  [i \in 1..n |-> Payload(LoadedMessages, NoValues, DefaultPrefix, DefaultSuffix)]

NoReply ==
  [n |-> 0, status |-> 0, thrown |-> FALSE,
   request |-> [kind |-> "none", target |-> 0, bump |-> "none"],
   body |-> [additions |-> 0, deletions |-> 0, change_rate |-> 0]]

(***************************************************************************)
(* The page after mount: the mount effects have called loadProviders and,  *)
(* when the route has an id, loadTestHistories. InitStream is that state,  *)
(* with a transport that may cut the body of a test anywhere (explored for *)
(* one test); Init is the page with its providers loaded and a transport   *)
(* that delivers whole lines.                                              *)
(***************************************************************************)
InitRun ==
  /\ id \in {"", "p1"}
  /\ response = << >>
  /\ responseRef = << >>
  /\ loading = FALSE
  /\ streamAbort = 0
  /\ histories = << >>
  /\ historyLoading = (id # "")
  /\ selectedHistoryId = 0
  /\ editingHistoryId = 0
  /\ editingTitle = ""
  /\ historyMutation = NoMutation
  /\ streams = << >>
  /\ requests = 0
  /\ saves = {}
  /\ loads = IF id # "" THEN {[n |-> 0, phase |-> "sent", data |-> << >>]} ELSE {}
  /\ deletes = {}
  /\ renames = {}
  /\ \E n \in InitialStored : store = InitialStore(n)
  /\ nextId = Len(store) + 1
  /\ used = [starts |-> 0, ops |-> 0, saves |-> 0]
  /\ tests = << >>
  /\ payloads = InitialPayloads(Len(store))

InitPlayground ==
  /\ messages = IF id = "" THEN InitialMessages ELSE LoadedMessages
  /\ variablePrefix = DefaultPrefix
  /\ variableSuffix = DefaultSuffix
  /\ variables = VariablesEffect(<< >>, messages, variablePrefix, variableSuffix)
  /\ variableValues = NoValues

InitPage ==
  /\ InitRun
  /\ InitPlayground

(***************************************************************************)
(* Providers (part_000 84-93) and the Settings page before it is opened    *)
(* (part_001 1175-1178).  Of a provider's fields the model keeps the id,   *)
(* the three that handleSubmit validates, and is_default.                  *)
(***************************************************************************)
Provider(pid, name, apiKey, model, isDefault) ==
  [id |-> pid, name |-> name, api_key |-> apiKey, model |-> model,
   is_default |-> isDefault]

createEmptyProvider(pid, isDefault) == Provider(pid, << >>, << >>, << >>, isDefault)

NoLlmReply ==
  [n |-> 0, op |-> "none", status |-> 0, thrown |-> FALSE, sent |-> << >>, result |-> << >>]

NoSettings == [llm_providers |-> << >>, aliyun_api_key |-> << >>]

SettingsIdle ==
  /\ settingsPage = [loading |-> TRUE, saving |-> FALSE, providers |-> << >>,
                     error |-> FALSE, alerts |-> 0, created |-> 0, ops |-> 0]
  /\ settingsRequests = {}
  /\ llmBackend = [legacy |-> FALSE, providers |-> << >>, settings |-> NoSettings]
  /\ llmReply = NoLlmReply

BackendIdle ==
  /\ projects = {}
  /\ prompts = {}
  /\ promptHistory = << >>
  /\ reply = NoReply

InitStream ==
  /\ InitPage
  /\ BackendIdle
  /\ SettingsIdle
  /\ transport = "byte"
  /\ providers = << >>
  /\ providerLoading = TRUE

(***************************************************************************)
(* The page once loadProviders has answered with a provider.               *)
(***************************************************************************)
Init ==
  /\ InitPage
  /\ BackendIdle
  /\ SettingsIdle
  /\ transport = "line"
  /\ providers = << "provider-1" >>
  /\ providerLoading = FALSE

(***************************************************************************)
(* loadProviders (part_001 211-233).                                       *)
(***************************************************************************)
LoadProvidersDone(list) ==
  /\ providerLoading
  /\ providers' = list
  /\ providerLoading' = FALSE
  /\ UNCHANGED << id, transport, playVars, tests, payloads, backendVars, settingsVars,
                  bufferVars, runVars, histories, historyLoading,
                  selectedHistoryId, editVars, historyMutation, streams, requests,
                  saves, loads, deletes, renames, serverVars, used >>

LoadProvidersFail ==
  /\ providerLoading
  /\ providerLoading' = FALSE
  /\ UNCHANGED << id, transport, playVars, tests, payloads, backendVars, settingsVars,
                  providers, bufferVars, runVars, histories,
                  historyLoading, selectedHistoryId, editVars, historyMutation,
                  streams, requests, saves, loads, deletes, renames, serverVars, used >>

(***************************************************************************)
(* ApiService.testPromptStream (api.ts 141-212): the call itself issues    *)
(* one fetch and returns the abort function of its controller.             *)
(***************************************************************************)
testPromptStream ==
  /\ streams' = Append(streams, NewStream)
  /\ requests' = requests + 1

(***************************************************************************)
(* TestPrompt.handleTest (part_001 458-550).                               *)
(***************************************************************************)
TestLimit == IF transport = "line" THEN MaxTests ELSE 1

HandleTestMayStart == ~loading /\ ~(~providerLoading /\ providers = << >>)

HandleTestStart ==
  /\ HandleTestMayStart
  /\ Len(streams) < TestLimit
  /\ loading' = TRUE
  /\ response' = << >>
  /\ responseRef' = << >>
  /\ selectedHistoryId' = 0
  /\ LET messageSnapshot == MessageSnapshot(messages, Now)
     IN tests' = Append(tests,
          [messageSnapshot |-> messageSnapshot,
           variables       |-> variables,
           variableValues  |-> variableValues,
           variablePrefix  |-> variablePrefix,
           variableSuffix  |-> variableSuffix,
           apiMessages     |-> ApiMessages(messageSnapshot, variables, variableValues,
                                           variablePrefix, variableSuffix)])
  /\ testPromptStream
  /\ streamAbort' = Len(streams) + 1
  /\ used' = [used EXCEPT !.starts = @ + 1]
  /\ UNCHANGED << pageVars, playVars, payloads, backendVars, settingsVars,
                  histories, historyLoading, editVars, historyMutation,
                  saves, loads, deletes, renames, serverVars >>

\* Variant of CatchReports: the catch block without its AbortError test.
CatchReportsAll(errName) == TRUE

CatchReports(errName) == errName # "AbortError"

CatchCalls(errName, msg) ==
  IF CatchReports(errName) THEN << ErrorCall(msg) >> ELSE << >>

\* Variant of Abort: the returned function does not abort the controller.
AbortNothing(ss, s) == ss

Abort(ss, s) ==
  IF s \in 1..Len(ss) /\ Active(ss[s])
  THEN [ss EXCEPT ![s].status = "aborted", ![s].wire = << >>,
                  ![s].calls = Append(@, AbortMark)
                                \o CatchCalls("AbortError", "The user aborted a request.")]
  ELSE ss

HandleTestStop ==
  /\ loading
  /\ streams' = IF streamAbort # 0 THEN Abort(streams, streamAbort) ELSE streams
  /\ streamAbort' = 0
  /\ loading' = FALSE
  /\ UNCHANGED << pageVars, playVars, tests, payloads, backendVars, settingsVars,
                  bufferVars, histories, historyLoading, selectedHistoryId,
                  editVars, historyMutation, requests, saves, loads, deletes,
                  renames, serverVars, used >>

(***************************************************************************)
(* The three callbacks handleTest passes to testPromptStream               *)
(* (part_001 528-545) and persistHistory (part_001 359-423).               *)
(***************************************************************************)
onData(texts) ==
  /\ response' = response \o Flatten(texts)
  /\ responseRef' = response'

\* Variant of onError: the callback without its setLoading(false).
onErrorKeepsLoading ==
  /\ loading' = loading
  /\ streamAbort' = 0

onError ==
  /\ loading' = FALSE
  /\ streamAbort' = 0

\* Variant of PersistGuard: the guard tests the response without trimming it.
PersistGuardNoTrim(pid, finalResponse) == pid # "" /\ finalResponse # << >>

PersistGuard(pid, finalResponse) == pid # "" /\ Trim(finalResponse) # << >>

\* Variant of SnapshotOf: persistHistory is given the page's current messages.
SnapshotLive(s) == messages

SnapshotOf(s) == tests[s].messageSnapshot

PayloadMessages(messagesSnapshot) ==
  [i \in 1..Len(messagesSnapshot) |->
     Message(messagesSnapshot[i].id, messagesSnapshot[i].role, messagesSnapshot[i].content)]

persistHistory(ss, s, finalResponse) ==
  IF PersistGuard(id, finalResponse)
  THEN /\ streams' = [ss EXCEPT ![s].saveReqs = @ + 1]
       /\ saves' = saves \cup {[n |-> used.saves + 1, test |-> s,
                                response |-> finalResponse,
                                payload |-> Payload(PayloadMessages(SnapshotOf(s)),
                                                    tests[s].variableValues,
                                                    tests[s].variablePrefix,
                                                    tests[s].variableSuffix),
                                phase |-> "sent", hid |-> 0]}
       /\ used' = [used EXCEPT !.saves = @ + 1]
  ELSE /\ streams' = ss
       /\ UNCHANGED << saves, used >>

\* Variant of onComplete: the abort function is kept after completion.
onCompleteKeepsAbort(ss, s) ==
  /\ loading' = FALSE
  /\ streamAbort' = streamAbort
  /\ persistHistory(ss, s, responseRef)

onComplete(ss, s) ==
  /\ loading' = FALSE
  /\ streamAbort' = 0
  /\ persistHistory(ss, s, responseRef)

(***************************************************************************)
(* The promise chain of testPromptStream (api.ts 153-209).                 *)
(***************************************************************************)
ReadSizes(wire) ==
  CASE transport = "byte"  -> 1..Len(wire)
    [] transport = "line"  -> {n \in 1..Len(wire) : wire[n] = NL}
    [] transport = "event" -> {n \in 1..Len(wire) : wire[n] = NL /\ IndexOf(wire, NL) = n}
    [] transport = "whole" -> {Len(wire)} \ {0}

Catch(s, errName, msg, endStatus) ==
  /\ streams' = [streams EXCEPT ![s].status = endStatus,
                                ![s].wire = << >>,
                                ![s].calls = @ \o CatchCalls(errName, msg)]
  /\ IF CatchReports(errName) THEN onError ELSE UNCHANGED runVars

FetchOk(s, body) ==
  /\ streams[s].status = "pending"
  /\ streams' = [streams EXCEPT ![s].status = "open", ![s].wire = body,
                                ![s].body = body]
  /\ UNCHANGED << pageVars, playVars, tests, payloads, backendVars, settingsVars,
                  bufferVars, runVars, histories, historyLoading,
                  selectedHistoryId, editVars, historyMutation, requests, saves,
                  loads, deletes, renames, serverVars, used >>

\* Variant of FetchFails: a failed request is issued again.
FetchFailsRetries(s, msg) ==
  /\ streams[s].status = "pending"
  /\ requests < MaxTests + 1
  /\ requests' = requests + 1
  /\ UNCHANGED << pageVars, playVars, tests, payloads, backendVars, settingsVars,
                  bufferVars, runVars, histories, historyLoading,
                  selectedHistoryId, editVars, historyMutation, streams, saves,
                  loads, deletes, renames, serverVars, used >>

FetchFails(s, msg) ==
  /\ streams[s].status = "pending"
  /\ Catch(s, IF msg = "Failed to fetch" THEN "TypeError" ELSE "Error", msg, "refused")
  /\ UNCHANGED << pageVars, playVars, tests, payloads, backendVars, settingsVars,
                  bufferVars, histories, historyLoading,
                  selectedHistoryId, editVars, historyMutation, requests, saves,
                  loads, deletes, renames, serverVars, used >>

ReadChunk(s, n) ==
  /\ streams[s].status = "open"
  /\ n \in ReadSizes(streams[s].wire)
  /\ LET chunk == SubSeq(streams[s].wire, 1, n)
         texts == ProcessChunk(chunk)
     IN /\ streams' = [streams EXCEPT ![s].wire = Substring(@, n),
                                      ![s].calls = @ \o DataCalls(texts)]
        /\ onData(texts)
  /\ UNCHANGED << pageVars, playVars, tests, payloads, backendVars, settingsVars,
                  runVars, histories, historyLoading, selectedHistoryId,
                  editVars, historyMutation, requests, saves, loads, deletes,
                  renames, serverVars, used >>

ReadDone(s) ==
  /\ streams[s].status = "open"
  /\ streams[s].wire = << >>
  /\ onComplete([streams EXCEPT ![s].status = "completed",
                                ![s].calls = Append(@, CompleteCall),
                                ![s].completedWith = responseRef], s)
  /\ UNCHANGED << pageVars, playVars, tests, payloads, backendVars, settingsVars,
                  bufferVars, histories, historyLoading,
                  selectedHistoryId, editVars, historyMutation, requests, loads,
                  deletes, renames, serverVars >>

ReadFails(s) ==
  /\ streams[s].status = "open"
  /\ Catch(s, "TypeError", "network error", "broken")
  /\ UNCHANGED << pageVars, playVars, tests, payloads, backendVars, settingsVars,
                  bufferVars, histories, historyLoading,
                  selectedHistoryId, editVars, historyMutation, requests, saves,
                  loads, deletes, renames, serverVars, used >>

(***************************************************************************)
(* persistHistory after its await (part_001 413-422), and the server's     *)
(* handling of the save request.                                           *)
(***************************************************************************)
ServerSave(q) ==
  /\ q \in saves /\ q.phase = "sent"
  /\ store' = << HistoryRecord(nextId, q.response, "auto") >> \o store
  /\ nextId' = nextId + 1
  /\ saves' = (saves \ {q}) \cup {[q EXCEPT !.phase = "stored", !.hid = nextId]}
  /\ payloads' = Append(payloads, q.payload)
  /\ UNCHANGED << pageVars, playVars, tests, backendVars, settingsVars,
                  bufferVars, runVars, histories, historyLoading,
                  selectedHistoryId, editVars, historyMutation, streams, requests,
                  loads, deletes, renames, used >>

\* Variant of AfterSave: the new list without its slice(0, 30).
AfterSaveNoSlice(saved, prev) ==
  << saved >> \o SelectSeq(prev, LAMBDA item : item.id # saved.id)

AfterSave(saved, prev) ==
  LET filtered == SelectSeq(prev, LAMBDA item : item.id # saved.id)
  IN Take(<< saved >> \o filtered, HistoryLimit)

SaveDone(q) ==
  /\ q \in saves /\ q.phase = "stored"
  /\ LET saved == HistoryRecord(q.hid, q.response, "auto")
     IN /\ histories' = AfterSave(saved, histories)
        /\ selectedHistoryId' = saved.id
  /\ saves' = saves \ {q}
  /\ UNCHANGED << pageVars, playVars, tests, payloads, backendVars, settingsVars,
                  bufferVars, runVars, historyLoading, editVars,
                  historyMutation, streams, requests, loads, deletes, renames,
                  serverVars, used >>

SaveFail(q) ==
  /\ q \in saves
  /\ saves' = saves \ {q}
  /\ UNCHANGED << pageVars, playVars, tests, payloads, backendVars, settingsVars,
                  bufferVars, runVars, histories, historyLoading,
                  selectedHistoryId, editVars, historyMutation, streams, requests,
                  loads, deletes, renames, serverVars, used >>

(***************************************************************************)
(* loadTestHistories (part_001 190-202) and handleHistoryRefresh (286-292).*)
(* The list endpoint answers with the newest `limit` records.              *)
(***************************************************************************)
ListAnswer(limit) == Take(store, limit)

MayAct == used.ops < MaxHistoryOps
Acted == used' = [used EXCEPT !.ops = @ + 1]

HandleHistoryRefresh ==
  /\ id # ""
  /\ MayAct
  /\ historyLoading' = TRUE
  /\ loads' = loads \cup {[n |-> used.ops + 1, phase |-> "sent", data |-> << >>]}
  /\ Acted
  /\ editingHistoryId' = 0
  /\ editingTitle' = ""
  /\ UNCHANGED << pageVars, playVars, tests, payloads, backendVars, settingsVars,
                  bufferVars, runVars, histories, selectedHistoryId,
                  historyMutation, streams, requests, saves, deletes, renames,
                  serverVars >>

ServerLoad(q) ==
  /\ q \in loads /\ q.phase = "sent"
  /\ loads' = (loads \ {q}) \cup {[q EXCEPT !.phase = "answered",
                                            !.data = ListAnswer(LoadLimit)]}
  /\ UNCHANGED << pageVars, playVars, tests, payloads, backendVars, settingsVars,
                  bufferVars, runVars, histories, historyLoading,
                  selectedHistoryId, editVars, historyMutation, streams, requests,
                  saves, deletes, renames, serverVars, used >>

LoadDone(q) ==
  /\ q \in loads /\ q.phase = "answered"
  /\ histories' = q.data
  /\ historyLoading' = FALSE
  /\ loads' = loads \ {q}
  /\ UNCHANGED << pageVars, playVars, tests, payloads, backendVars, settingsVars,
                  bufferVars, runVars, selectedHistoryId, editVars,
                  historyMutation, streams, requests, saves, deletes, renames,
                  serverVars, used >>

LoadFail(q) ==
  /\ q \in loads
  /\ historyLoading' = FALSE
  /\ loads' = loads \ {q}
  /\ UNCHANGED << pageVars, playVars, tests, payloads, backendVars, settingsVars,
                  bufferVars, runVars, histories, selectedHistoryId,
                  editVars, historyMutation, streams, requests, saves, deletes,
                  renames, serverVars, used >>

(***************************************************************************)
(* The history list of the page: the rows the user can act on are rendered *)
(* only while historyLoading is false (part_001 805-815). The model lets   *)
(* the user pick the first or the last row.                                *)
(***************************************************************************)
normalizeHistoryMessages(historyMessages) ==
  IF historyMessages = << >>
  THEN << Message(Mid("system", Now), "system", << >>),
          Message(Mid("user", Now + 1), "user", << >>) >>
  ELSE [k \in 1..Len(historyMessages) |->
          LET role == IF historyMessages[k].role \in {"system", "assistant"}
                      THEN historyMessages[k].role ELSE "user"
          IN Message(IF historyMessages[k].id = NoId
                     THEN Mid(role, Now + k - 1) ELSE historyMessages[k].id,
                     role, historyMessages[k].content)]

Rows == IF historyLoading THEN {} ELSE {1, Len(histories)} \cap (1..Len(histories))

TypedTitles == {"t"}

HandleHistorySelect(i) ==
  /\ i \in Rows
  /\ MayAct /\ Acted
  /\ editingHistoryId' = 0
  /\ editingTitle' = ""
  /\ selectedHistoryId' = histories[i].id
  /\ response' = histories[i].response
  /\ responseRef' = histories[i].response
  /\ LET history == payloads[histories[i].id]
     IN /\ messages' = normalizeHistoryMessages(history.messages)
        /\ variableValues' = history.variable_values
        /\ variablePrefix' = history.variable_prefix
        /\ variableSuffix' = history.variable_suffix
  /\ variables' = VariablesEffect(variables, messages', variablePrefix', variableSuffix')
  /\ UNCHANGED << pageVars, tests, payloads, backendVars, settingsVars,
                  runVars, histories, historyLoading, historyMutation,
                  streams, requests, saves, loads, deletes, renames, serverVars >>

HandleStartNewTest ==
  /\ MayAct /\ Acted
  /\ selectedHistoryId' = 0
  /\ response' = << >>
  /\ responseRef' = << >>
  /\ editingHistoryId' = 0
  /\ editingTitle' = ""
  /\ UNCHANGED << pageVars, playVars, tests, payloads, backendVars, settingsVars,
                  runVars, histories, historyLoading, historyMutation,
                  streams, requests, saves, loads, deletes, renames, serverVars >>

StartHistoryTitleEdit(i, t) ==
  /\ i \in Rows
  /\ MayAct /\ Acted
  /\ editingHistoryId # histories[i].id
  /\ ~(historyMutation.id = histories[i].id /\ historyMutation.type = "delete")
  /\ editingHistoryId' = histories[i].id
  /\ editingTitle' = t
  /\ UNCHANGED << pageVars, playVars, tests, payloads, backendVars, settingsVars,
                  bufferVars, runVars, histories, historyLoading,
                  selectedHistoryId, historyMutation, streams, requests, saves,
                  loads, deletes, renames, serverVars >>

EditingRowShown == ~historyLoading /\ editingHistoryId \in Ids(histories)

CancelHistoryTitleEdit ==
  /\ EditingRowShown
  /\ MayAct /\ Acted
  /\ editingHistoryId' = 0
  /\ editingTitle' = ""
  /\ UNCHANGED << pageVars, playVars, tests, payloads, backendVars, settingsVars,
                  bufferVars, runVars, histories, historyLoading,
                  selectedHistoryId, historyMutation, streams, requests, saves,
                  loads, deletes, renames, serverVars >>

HandleHistoryTitleSave ==
  /\ EditingRowShown
  /\ editingHistoryId # 0
  /\ MayAct /\ Acted
  /\ historyMutation' = [id |-> editingHistoryId, type |-> "rename"]
  /\ renames' = renames \cup {[hid |-> editingHistoryId, title |-> editingTitle]}
  /\ UNCHANGED << pageVars, playVars, tests, payloads, backendVars, settingsVars,
                  bufferVars, runVars, histories, historyLoading,
                  selectedHistoryId, editVars, streams, requests, saves, loads,
                  deletes, serverVars >>

Retitle(list, hid, title) ==
  [i \in 1..Len(list) |-> IF list[i].id = hid THEN [list[i] EXCEPT !.title = title]
                          ELSE list[i]]

Replace(prev, updated) ==
  [i \in 1..Len(prev) |-> IF prev[i].id = updated.id THEN updated ELSE prev[i]]

RenameDone(q) ==
  /\ q \in renames
  /\ q.hid \in Ids(store)
  /\ store' = Retitle(store, q.hid, q.title)
  /\ LET updated == CHOOSE r \in {store'[i] : i \in 1..Len(store')} : r.id = q.hid
     IN histories' = Replace(histories, updated)
  /\ historyMutation' = NoMutation
  /\ editingHistoryId' = 0
  /\ editingTitle' = ""
  /\ renames' = renames \ {q}
  /\ UNCHANGED << pageVars, playVars, tests, payloads, backendVars, settingsVars,
                  bufferVars, runVars, historyLoading, selectedHistoryId,
                  streams, requests, saves, loads, deletes, nextId, used >>

RenameFail(q) ==
  /\ q \in renames
  /\ historyMutation' = NoMutation
  /\ editingHistoryId' = 0
  /\ editingTitle' = ""
  /\ renames' = renames \ {q}
  /\ UNCHANGED << pageVars, playVars, tests, payloads, backendVars, settingsVars,
                  bufferVars, runVars, histories, historyLoading,
                  selectedHistoryId, streams, requests, saves, loads, deletes,
                  serverVars, used >>

HandleHistoryDelete(i) ==
  /\ i \in Rows
  /\ editingHistoryId # histories[i].id
  /\ historyMutation.id # histories[i].id
  /\ MayAct /\ Acted
  /\ historyMutation' = [id |-> histories[i].id, type |-> "delete"]
  /\ deletes' = deletes \cup {[hid |-> histories[i].id, sel |-> selectedHistoryId]}
  /\ UNCHANGED << pageVars, playVars, tests, payloads, backendVars, settingsVars,
                  bufferVars, runVars, histories, historyLoading,
                  selectedHistoryId, editVars, streams, requests, saves, loads,
                  renames, serverVars >>

DeleteDone(q) ==
  /\ q \in deletes
  /\ q.hid \in Ids(store)
  /\ store' = SelectSeq(store, LAMBDA item : item.id # q.hid)
  /\ histories' = SelectSeq(histories, LAMBDA item : item.id # q.hid)
  /\ IF q.sel = q.hid
     THEN selectedHistoryId' = 0 /\ response' = << >> /\ responseRef' = << >>
     ELSE UNCHANGED << selectedHistoryId, bufferVars >>
  /\ historyMutation' = NoMutation
  /\ deletes' = deletes \ {q}
  /\ UNCHANGED << pageVars, playVars, tests, payloads, backendVars, settingsVars,
                  runVars, historyLoading, editVars, streams, requests,
                  saves, loads, renames, nextId, used >>

DeleteFail(q) ==
  /\ q \in deletes
  /\ historyMutation' = NoMutation
  /\ deletes' = deletes \ {q}
  /\ UNCHANGED << pageVars, playVars, tests, payloads, backendVars, settingsVars,
                  bufferVars, runVars, histories, historyLoading,
                  selectedHistoryId, editVars, streams, requests, saves, loads,
                  renames, serverVars, used >>

(***************************************************************************)
(* Specifications.                                                         *)
(***************************************************************************)
(***************************************************************************)
(* Version strings (spec 4.1): three numeric components separated by dots. *)
(***************************************************************************)
Digits == << "0", "1", "2", "3", "4", "5", "6", "7", "8", "9" >>
IsDigit(c) == \E d \in 1..Len(Digits) : Digits[d] = c
DigitValue(c) == (CHOOSE d \in 1..Len(Digits) : Digits[d] = c) - 1

RECURSIVE ParseNumber(_)
ParseNumber(s) ==
  IF s = << >> THEN 0
  ELSE ParseNumber(SubSeq(s, 1, Len(s) - 1)) * Len(Digits) + DigitValue(s[Len(s)])

RECURSIVE FormatNumber(_)
FormatNumber(n) ==
  IF n < Len(Digits) THEN << Digits[n + 1] >>
  ELSE FormatNumber(n \div Len(Digits)) \o << Digits[(n % Len(Digits)) + 1] >>

RECURSIVE SplitDots(_)
SplitDots(s) ==
  LET i == IndexOf(s, ".") IN
  IF i = 0 THEN << s >>
  ELSE << SubSeq(s, 1, i - 1) >> \o SplitDots(Substring(s, i))

IsNumeric(s) == s # << >> /\ \A i \in 1..Len(s) : IsDigit(s[i])

WellFormed(version) ==
  LET parts == SplitDots(version)
  IN Len(parts) = 3 /\ \A i \in 1..3 : IsNumeric(parts[i])

ParseVersion(version) ==
  LET parts == SplitDots(version)
  IN [major |-> ParseNumber(parts[1]), minor |-> ParseNumber(parts[2]),
      patch |-> ParseNumber(parts[3])]

FormatVersion(major, minor, patch) ==
  FormatNumber(major) \o << "." >> \o FormatNumber(minor) \o << "." >> \o FormatNumber(patch)

BumpKinds == {"major", "minor", "patch", "none"}

\* Variant of BumpVersion: a bump that does not zero the lower components.
BumpVersionKeepsLower(version, kind) ==
  LET v == ParseVersion(version)
  IN CASE kind = "major" -> FormatVersion(v.major + 1, v.minor, v.patch)
       [] kind = "minor" -> FormatVersion(v.major, v.minor + 1, v.patch)
       [] kind = "patch" -> FormatVersion(v.major, v.minor, v.patch + 1)
       [] kind = "none"  -> version

BumpVersion(version, kind) ==
  LET v == ParseVersion(version)
  IN CASE kind = "major" -> FormatVersion(v.major + 1, 0, 0)
       [] kind = "minor" -> FormatVersion(v.major, v.minor + 1, 0)
       [] kind = "patch" -> FormatVersion(v.major, v.minor, v.patch + 1)
       [] kind = "none"  -> version

(***************************************************************************)
(* Diff computation (spec 4.2) on the words of two contents.               *)
(***************************************************************************)
RECURSIVE Words(_)
Words(content) ==
  LET s == TrimStart(content)
      n == IF \E i \in 1..Len(s) : IsWhitespace(s[i])
           THEN (CHOOSE i \in 1..Len(s) :
                   IsWhitespace(s[i]) /\ \A j \in 1..(i - 1) : ~IsWhitespace(s[j])) - 1
           ELSE Len(s)
  IN IF s = << >> THEN << >>
     ELSE << SubSeq(s, 1, n) >> \o Words(Substring(s, n))

Max(a, b) == IF a > b THEN a ELSE b

\* Variant of CommonUnits: no unit is recognised as common to both contents.
CommonUnitsNone(old, new) == 0

RECURSIVE CommonUnits(_, _)
CommonUnits(old, new) ==
  IF old = << >> \/ new = << >> THEN 0
  ELSE IF Head(old) = Head(new) THEN 1 + CommonUnits(Tail(old), Tail(new))
  ELSE Max(CommonUnits(Tail(old), new), CommonUnits(old, Tail(new)))

Percent == 100

DiffResult(oldContent, newContent) ==
  LET old    == Words(oldContent)
      new    == Words(newContent)
      common == CommonUnits(old, new)
      total  == Len(old) + Len(new)
      additions == Len(new) - common
      deletions == Len(old) - common
  IN [additions   |-> additions,
      deletions   |-> deletions,
      change_rate |-> IF total = 0 THEN 0
                      ELSE ((additions + deletions) * Percent) \div total]

(***************************************************************************)
(* The server behind the project and prompt endpoints (spec 3, 4.1, 4.2,   *)
(* 7) and the client's request wrapper (api.ts 36-51).                     *)
(***************************************************************************)
StatusOk == 200
StatusBadRequest == 400
StatusNotFound == 404

ResponseOk(status) == status >= 200 /\ status < 300

\* Variant of RequestThrows: the wrapper without its response.ok test.
RequestNeverThrows(status) == FALSE

RequestThrows(status) == ~ResponseOk(status)

Prompt(pid, project, version, content) ==
  [id |-> pid, project_id |-> project, version |-> version, content |-> content]

HistoryEntry(n, pid, operation, old, new) ==
  [id |-> n, prompt_id |-> pid, operation |-> operation,
   old_content |-> old, new_content |-> new]

Request(kind, target, bump) == [kind |-> kind, target |-> target, bump |-> bump]

MayRequest == reply.n < MaxRequests

Reply(status, request, body) ==
  [n |-> reply.n + 1, status |-> status, thrown |-> RequestThrows(status),
   request |-> request, body |-> body]

NoDiff == [additions |-> 0, deletions |-> 0, change_rate |-> 0]

ServerFrame ==
  UNCHANGED << pageVars, playVars, tests, payloads, settingsVars, bufferVars, runVars,
               histories, historyLoading, selectedHistoryId, editVars,
               historyMutation, streams, requests, saves, loads, deletes,
               renames, serverVars, used >>

Refuse(status, request) ==
  /\ reply' = Reply(status, request, NoDiff)
  /\ UNCHANGED << projects, prompts, promptHistory >>

PromptIds == {p.id : p \in prompts}
PromptOf(pid) == CHOOSE p \in prompts : p.id = pid
EntriesOf(pid) == SelectSeq(promptHistory, LAMBDA e : e.prompt_id = pid)

CreateProject ==
  /\ MayRequest
  /\ projects' = projects \cup {reply.n + 1}
  /\ reply' = Reply(StatusOk, Request("createProject", reply.n + 1, "none"), NoDiff)
  /\ UNCHANGED << prompts, promptHistory >>
  /\ ServerFrame

\* Variant of Cascade: the prompts of a deleted project are kept.
CascadeNothing(project) == prompts

Cascade(project) == {p \in prompts : p.project_id # project}

DeleteProject(project) ==
  /\ MayRequest
  /\ IF project \in projects
     THEN /\ projects' = projects \ {project}
          /\ prompts' = Cascade(project)
          /\ promptHistory' = SelectSeq(promptHistory,
                                LAMBDA e : \E p \in prompts' : p.id = e.prompt_id)
          /\ reply' = Reply(StatusOk, Request("deleteProject", project, "none"), NoDiff)
     ELSE Refuse(StatusNotFound, Request("deleteProject", project, "none"))
  /\ ServerFrame

InitialVersion == << "1", ".", "0", ".", "0" >>

CreatePrompt(project, content) ==
  /\ MayRequest
  /\ IF project \in projects
     THEN /\ prompts' = prompts \cup {Prompt(reply.n + 1, project, InitialVersion, content)}
          /\ promptHistory' = Append(promptHistory,
                                HistoryEntry(reply.n + 1, reply.n + 1, "create", << >>, content))
          /\ reply' = Reply(StatusOk, Request("createPrompt", reply.n + 1, "none"), NoDiff)
          /\ UNCHANGED projects
     ELSE Refuse(StatusNotFound, Request("createPrompt", project, "none"))
  /\ ServerFrame

ImportPrompt(project, version, content) ==
  /\ MayRequest
  /\ IF project \in projects
     THEN /\ prompts' = prompts \cup {Prompt(reply.n + 1, project, version, content)}
          /\ reply' = Reply(StatusOk, Request("import", reply.n + 1, "none"), NoDiff)
          /\ UNCHANGED << projects, promptHistory >>
     ELSE Refuse(StatusNotFound, Request("import", project, "none"))
  /\ ServerFrame

Replaced(prompt) == {p \in prompts : p.id # prompt.id} \cup {prompt}

\* Variant of UpdateEntries: an update that keeps the version records nothing.
UpdateEntriesWhenBumped(bump, entry) == IF bump = "none" THEN << >> ELSE << entry >>

UpdateEntries(bump, entry) == << entry >>

UpdatePrompt(pid, content, bump) ==
  /\ MayRequest
  /\ LET request == Request("update", pid, bump) IN
     IF pid \notin PromptIds THEN Refuse(StatusNotFound, request)
     ELSE LET prompt == PromptOf(pid) IN
          IF ~WellFormed(prompt.version) THEN Refuse(StatusBadRequest, request)
          ELSE /\ prompts' = Replaced([prompt EXCEPT !.version = BumpVersion(@, bump),
                                                     !.content = content])
               /\ promptHistory' = promptHistory \o
                                     UpdateEntries(bump,
                                       HistoryEntry(reply.n + 1, pid, "update",
                                                    prompt.content, content))
               /\ reply' = Reply(StatusOk, request, NoDiff)
               /\ UNCHANGED projects
  /\ ServerFrame

\* Variant of RolledBack: a rollback that removes the entry it undoes.
RolledBackDropsEntry(pid, entry) ==
  SelectSeq(promptHistory, LAMBDA e : e.id # EntriesOf(pid)[Len(EntriesOf(pid))].id)

RolledBack(pid, entry) == Append(promptHistory, entry)

\* Variant of RolledBackVersion: a rollback that keeps the version.
RolledBackVersionKept(version, bump) == version

RolledBackVersion(version, bump) == BumpVersion(version, bump)

RollbackPrompt(pid, bump) ==
  /\ MayRequest
  /\ LET request == Request("rollback", pid, bump) IN
     IF pid \notin PromptIds THEN Refuse(StatusNotFound, request)
     ELSE LET prompt  == PromptOf(pid)
              entries == EntriesOf(pid)
          IN IF entries = << >> \/ ~WellFormed(prompt.version)
             THEN Refuse(StatusBadRequest, request)
             ELSE LET restored == entries[Len(entries)].old_content IN
                  /\ prompts' = Replaced([prompt EXCEPT !.version = RolledBackVersion(@, bump),
                                                        !.content = restored])
                  /\ promptHistory' = RolledBack(pid,
                                        HistoryEntry(reply.n + 1, pid, "rollback",
                                                     prompt.content, restored))
                  /\ reply' = Reply(StatusOk, request, NoDiff)
                  /\ UNCHANGED projects
  /\ ServerFrame

DeletePrompt(pid) ==
  /\ MayRequest
  /\ IF pid \in PromptIds
     THEN /\ prompts' = {p \in prompts : p.id # pid}
          /\ promptHistory' = SelectSeq(promptHistory, LAMBDA e : e.prompt_id # pid)
          /\ reply' = Reply(StatusOk, Request("deletePrompt", pid, "none"), NoDiff)
          /\ UNCHANGED projects
     ELSE Refuse(StatusNotFound, Request("deletePrompt", pid, "none"))
  /\ ServerFrame

GetPromptDiff(pid, targetId) ==
  /\ MayRequest
  /\ LET request == Request("diff", << pid, targetId >>, "none") IN
     IF pid \in PromptIds /\ targetId \in PromptIds
     THEN /\ reply' = Reply(StatusOk, request,
                            DiffResult(PromptOf(pid).content, PromptOf(targetId).content))
          /\ UNCHANGED << projects, prompts, promptHistory >>
     ELSE Refuse(StatusNotFound, request)
  /\ ServerFrame

(***************************************************************************)
(* JSON.stringify and JSON.parse on provider lists (api.ts 69, 120).       *)
(***************************************************************************)
Quote == "\""
Backslash == "\\"

RECURSIVE Escape(_)
Escape(s) ==
  IF s = << >> THEN << >>
  ELSE (IF Head(s) \in {Quote, Backslash} THEN << Backslash, Head(s) >> ELSE << Head(s) >>)
       \o Escape(Tail(s))

JsonString(s) == << Quote >> \o Escape(s) \o << Quote >>
JsonBoolean(b) == IF b THEN << "t", "r", "u", "e" >> ELSE << "f", "a", "l", "s", "e" >>

IdKey == << "i", "d" >>
NameKey == << "n", "a", "m", "e" >>
ApiKeyKey == << "a", "p", "i", "_", "k", "e", "y" >>
ModelKey == << "m", "o", "d", "e", "l" >>
IsDefaultKey == << "i", "s", "_", "d", "e", "f", "a", "u", "l", "t" >>
Member(key) == JsonString(key) \o << ":" >>

JsonProvider(p) ==
  << "{" >> \o Member(IdKey) \o JsonString(p.id)
  \o << "," >> \o Member(NameKey) \o JsonString(p.name)
  \o << "," >> \o Member(ApiKeyKey) \o JsonString(p.api_key)
  \o << "," >> \o Member(ModelKey) \o JsonString(p.model)
  \o << "," >> \o Member(IsDefaultKey) \o JsonBoolean(p.is_default) \o << "}" >>

RECURSIVE JoinProviders(_)
JoinProviders(list) ==
  IF list = << >> THEN << >>
  ELSE JsonProvider(Head(list))
       \o (IF Len(list) > 1 THEN << "," >> ELSE << >>) \o JoinProviders(Tail(list))

JsonStringify(list) == << "[" >> \o JoinProviders(list) \o << "]" >>

NoParse == [ok |-> FALSE, value |-> << >>, rest |-> << >>]

RECURSIVE ScanString(_, _)
ScanString(s, acc) ==
  IF s = << >> THEN NoParse
  ELSE IF Head(s) = Quote THEN [ok |-> TRUE, value |-> acc, rest |-> Tail(s)]
  ELSE IF Head(s) = Backslash /\ ~(Len(s) >= 2 /\ s[2] \in {Quote, Backslash}) THEN NoParse
  ELSE ScanString(Substring(s, IF Head(s) = Backslash THEN 2 ELSE 1),
                  Append(acc, IF Head(s) = Backslash THEN s[2] ELSE Head(s)))

ReadString(s) == IF StartsWith(s, << Quote >>) THEN ScanString(Tail(s), << >>) ELSE NoParse

ReadBoolean(s) ==
  IF StartsWith(s, JsonBoolean(TRUE))
  THEN [ok |-> TRUE, value |-> TRUE, rest |-> Substring(s, Len(JsonBoolean(TRUE)))]
  ELSE IF StartsWith(s, JsonBoolean(FALSE))
  THEN [ok |-> TRUE, value |-> FALSE, rest |-> Substring(s, Len(JsonBoolean(FALSE)))]
  ELSE NoParse

ProviderKeys == << IdKey, NameKey, ApiKeyKey, ModelKey, IsDefaultKey >>

ReadValue(s, key) == IF key = IsDefaultKey THEN ReadBoolean(s) ELSE ReadString(s)

Extended(acc, v) == [ok |-> v.ok, value |-> Append(acc, v.value), rest |-> v.rest]

ReadMember(s, acc) ==
  LET key  == ProviderKeys[Len(acc) + 1]
      head == (IF acc = << >> THEN << "{" >> ELSE << "," >>) \o Member(key)
  IN IF StartsWith(s, head) THEN Extended(acc, ReadValue(Substring(s, Len(head)), key))
     ELSE NoParse

RECURSIVE ReadMembers(_)
ReadMembers(m) ==
  IF ~m.ok \/ Len(m.value) = Len(ProviderKeys) THEN m
  ELSE ReadMembers(ReadMember(m.rest, m.value))

CloseProvider(m) ==
  IF m.ok /\ StartsWith(m.rest, << "}" >>)
  THEN [ok |-> TRUE,
        value |-> Provider(m.value[1], m.value[2], m.value[3], m.value[4], m.value[5]),
        rest |-> Tail(m.rest)]
  ELSE NoParse

ReadProvider(s) == CloseProvider(ReadMembers([ok |-> TRUE, value |-> << >>, rest |-> s]))

NextProvider(acc, p) ==
  [ok |-> p.ok, value |-> Append(acc, p.value),
   rest |-> IF StartsWith(p.rest, << "," >>) THEN Tail(p.rest) ELSE p.rest,
   more |-> StartsWith(p.rest, << "," >>)]

RECURSIVE ReadProviders(_)
ReadProviders(r) ==
  IF ~r.ok THEN NoParse
  ELSE IF ~r.more THEN (IF r.rest = << "]" >> THEN r ELSE NoParse)
  ELSE ReadProviders(NextProvider(r.value, ReadProvider(r.rest)))

ParsedArray(r) ==
  IF r.ok THEN [kind |-> "array", value |-> r.value]
  ELSE [kind |-> "throws", value |-> << >>]

\* The outcome of JSON.parse: an array of providers, another value, or a throw.
JsonParse(s) ==
  IF s = << "[", "]" >> THEN [kind |-> "array", value |-> << >>]
  ELSE IF s = << "{", "}" >> THEN [kind |-> "other", value |-> << >>]
  ELSE IF StartsWith(s, << "[" >>)
  THEN ParsedArray(ReadProviders([ok |-> TRUE, value |-> << >>, rest |-> Tail(s),
                                  more |-> TRUE]))
  ELSE [kind |-> "throws", value |-> << >>]

(***************************************************************************)
(* getLLMProviders and saveLLMProviders (api.ts 65-125): what the call     *)
(* returns or throws and what the server holds afterwards, given the       *)
(* status of /llm-providers and, on the legacy path, that of /settings.    *)
(***************************************************************************)
AliyunProvider(settings) ==
  Provider(<< "a", "l", "i", "y", "u", "n", "-", "d", "e", "f", "a", "u", "l", "t" >>,
           << "a", "l", "i", "y", "u", "n" >>, settings.aliyun_api_key,
           << "q", "w", "e", "n", "-", "t", "u", "r", "b", "o" >>, TRUE)

\* Variant of Truthy: the stored text of an empty list counts as no list.
TruthyUnlessEmptyList(text) == text # << >> /\ text # << "[", "]" >>

Truthy(text) == text # << >>

buildLegacyProvidersFromSettings(settings) ==
  LET parsed == JsonParse(settings.llm_providers) IN
  IF Truthy(settings.llm_providers) /\ parsed.kind = "array" THEN parsed.value
  ELSE IF ~Truthy(settings.aliyun_api_key) THEN << >>
  ELSE << AliyunProvider(settings) >>

getLLMProviders(backend, status, settingsStatus) ==
  IF ResponseOk(status) THEN [thrown |-> FALSE, result |-> backend.providers]
  ELSE IF status = StatusNotFound /\ ~RequestThrows(settingsStatus)
  THEN [thrown |-> FALSE, result |-> buildLegacyProvidersFromSettings(backend.settings)]
  ELSE [thrown |-> TRUE, result |-> << >>]

saveLLMProviders(backend, list, status, settingsStatus) ==
  IF ResponseOk(status)
  THEN [thrown |-> FALSE, backend |-> [backend EXCEPT !.providers = list]]
  ELSE IF status = StatusNotFound /\ ~RequestThrows(settingsStatus)
  THEN [thrown |-> FALSE,
        backend |-> [backend EXCEPT !.settings.llm_providers = JsonStringify(list)]]
  ELSE [thrown |-> TRUE, backend |-> backend]

StatusError == 500
EndpointStatuses == IF llmBackend.legacy THEN {StatusNotFound, StatusError}
                    ELSE {StatusOk, StatusError}
SettingsStatuses == {StatusOk, StatusError}

(***************************************************************************)
(* The Settings page (part_001 1143-1256, buttons 1329-1342 and 1430).     *)
(***************************************************************************)
RECURSIVE NormalizeFrom(_, _, _)
NormalizeFrom(list, index, defaultAssigned) ==
  IF list = << >> THEN << >>
  ELSE LET provider == Head(list) IN
       IF provider.is_default
       THEN IF defaultAssigned
            THEN << [provider EXCEPT !.is_default = FALSE] >>
                 \o NormalizeFrom(Tail(list), index + 1, defaultAssigned)
            ELSE << provider >> \o NormalizeFrom(Tail(list), index + 1, TRUE)
       ELSE IF ~defaultAssigned /\ index = 0
       THEN << [provider EXCEPT !.is_default = TRUE] >>
            \o NormalizeFrom(Tail(list), index + 1, TRUE)
       ELSE << provider >> \o NormalizeFrom(Tail(list), index + 1, defaultAssigned)

\* Variant of normalizeProviders: the list is sent as it is.
normalizeNothing(list) == list

normalizeProviders(list) == NormalizeFrom(list, 0, FALSE)

NewProviderId == << "n" >> \o FormatNumber(settingsPage.created + 1)

SettingsFrame ==
  UNCHANGED << pageVars, playVars, tests, payloads, backendVars, bufferVars, runVars,
               histories, historyLoading, selectedHistoryId, editVars,
               historyMutation, streams, requests, saves, loads, deletes,
               renames, serverVars, used >>

MaySet == ~settingsPage.loading /\ settingsPage.ops < MaxSettingsOps

LlmReply(op, status, thrown, sent, result) ==
  [n |-> llmReply.n + 1, op |-> op, status |-> status, thrown |-> thrown,
   sent |-> sent, result |-> result]

\* Variant of AfterFetchFailure: a failed fetch leaves the list as it was.
AfterFetchFailureKeeps(blank) == settingsPage.providers

AfterFetchFailure(blank) == << blank >>

fetchProviders(status, settingsStatus) ==
  /\ [kind |-> "get"] \in settingsRequests
  /\ settingsRequests' = settingsRequests \ {[kind |-> "get"]}
  /\ LET outcome == getLLMProviders(llmBackend, status, settingsStatus)
         blank   == createEmptyProvider(NewProviderId, TRUE)
     IN /\ llmReply' = LlmReply("get", status, outcome.thrown, << >>, outcome.result)
        /\ IF outcome.thrown
           THEN settingsPage' = [settingsPage EXCEPT !.providers = AfterFetchFailure(blank),
                                                     !.error = TRUE, !.loading = FALSE,
                                                     !.created = @ + 1]
           ELSE IF outcome.result = << >>
           THEN settingsPage' = [settingsPage EXCEPT !.providers = << blank >>,
                                                     !.error = FALSE, !.loading = FALSE,
                                                     !.created = @ + 1]
           ELSE settingsPage' = [settingsPage EXCEPT !.providers = outcome.result,
                                                     !.error = FALSE, !.loading = FALSE]
  /\ UNCHANGED llmBackend
  /\ SettingsFrame

updateProviderField(pid, field, value) ==
  /\ MaySet
  /\ settingsPage' =
       [settingsPage EXCEPT
          !.ops = @ + 1,
          !.providers = [i \in 1..Len(@) |->
                           IF @[i].id = pid THEN [@[i] EXCEPT ![field] = value] ELSE @[i]]]
  /\ UNCHANGED << settingsRequests, llmBackend, llmReply >>
  /\ SettingsFrame

handleSetDefault(pid) ==
  /\ MaySet
  /\ settingsPage' =
       [settingsPage EXCEPT
          !.ops = @ + 1,
          !.providers = [i \in 1..Len(@) |->
                           [id |-> @[i].id, name |-> @[i].name, api_key |-> @[i].api_key,
                            model |-> @[i].model, is_default |-> (@[i].id = pid)]]]
  /\ UNCHANGED << settingsRequests, llmBackend, llmReply >>
  /\ SettingsFrame

handleRemoveProvider(pid) ==
  /\ MaySet
  /\ Len(settingsPage.providers) # 1
  /\ LET filtered == SelectSeq(settingsPage.providers, LAMBDA provider : provider.id # pid)
     IN settingsPage' =
          [settingsPage EXCEPT
             !.ops = @ + 1,
             !.created = IF filtered = << >> THEN @ + 1 ELSE @,
             !.providers =
                IF filtered = << >> THEN << createEmptyProvider(NewProviderId, TRUE) >>
                ELSE IF ~\E i \in 1..Len(filtered) : filtered[i].is_default
                THEN [i \in 1..Len(filtered) |->
                        IF i = 1 THEN [filtered[i] EXCEPT !.is_default = TRUE]
                        ELSE filtered[i]]
                ELSE filtered]
  /\ UNCHANGED << settingsRequests, llmBackend, llmReply >>
  /\ SettingsFrame

handleAddProvider ==
  /\ MaySet
  /\ Len(settingsPage.providers) < MaxProviders
  /\ settingsPage' =
       [settingsPage EXCEPT
          !.ops = @ + 1,
          !.created = @ + 1,
          !.providers = Append(@, createEmptyProvider(NewProviderId, Len(@) = 0))]
  /\ UNCHANGED << settingsRequests, llmBackend, llmReply >>
  /\ SettingsFrame

Blank(text) == Trim(text) = << >>

\* Variant of Incomplete: only the name is required.
IncompleteName(provider) == Blank(provider.name)

Incomplete(provider) ==
  Blank(provider.name) \/ Blank(provider.api_key) \/ Blank(provider.model)

handleSubmit ==
  /\ MaySet
  /\ ~settingsPage.saving
  /\ IF \E i \in 1..Len(settingsPage.providers) : Incomplete(settingsPage.providers[i])
     THEN /\ settingsPage' = [settingsPage EXCEPT !.ops = @ + 1, !.alerts = @ + 1]
          /\ UNCHANGED settingsRequests
     ELSE /\ settingsPage' = [settingsPage EXCEPT !.ops = @ + 1, !.saving = TRUE]
          /\ settingsRequests' = settingsRequests \cup
               {[kind |-> "save", from |-> settingsPage.providers,
                 normalized |-> normalizeProviders(settingsPage.providers)]}
  /\ UNCHANGED << llmBackend, llmReply >>
  /\ SettingsFrame

handleSubmitDone(q, status, settingsStatus) ==
  /\ q \in settingsRequests
  /\ q.kind = "save"
  /\ settingsRequests' = settingsRequests \ {q}
  /\ LET outcome == saveLLMProviders(llmBackend, q.normalized, status, settingsStatus)
     IN /\ llmBackend' = outcome.backend
        /\ llmReply' = LlmReply("save", status, outcome.thrown, q.normalized, << >>)
        /\ settingsPage' =
             [settingsPage EXCEPT
                !.providers = IF outcome.thrown THEN @ ELSE q.normalized,
                !.alerts = @ + 1,
                !.saving = FALSE]
  /\ SettingsFrame

(***************************************************************************)
(* Calls of getLLMProviders and saveLLMProviders made directly.            *)
(***************************************************************************)
MayCall == llmReply.n < MaxApiCalls

ApiSave(list, status, settingsStatus) ==
  /\ MayCall
  /\ LET outcome == saveLLMProviders(llmBackend, list, status, settingsStatus)
     IN /\ llmBackend' = outcome.backend
        /\ llmReply' = LlmReply("save", status, outcome.thrown, list, << >>)
  /\ UNCHANGED << settingsPage, settingsRequests >>
  /\ SettingsFrame

ApiGet(status, settingsStatus) ==
  /\ MayCall
  /\ LET outcome == getLLMProviders(llmBackend, status, settingsStatus)
     IN llmReply' = LlmReply("get", status, outcome.thrown, << >>, outcome.result)
  /\ UNCHANGED << settingsPage, settingsRequests, llmBackend >>
  /\ SettingsFrame

(***************************************************************************)
(* The message editor and the variable panel of the page                   *)
(* (part_001 425-443, 976-999).                                            *)
(***************************************************************************)
TypedContents == {<< "{", "{", "a", "}", "}" >>, << "u" >>}
TypedValues   == {<< "x" >>}
TypedDelimiters == {<< >>, << "<" >>}

PlayFrame ==
  UNCHANGED << pageVars, tests, payloads, backendVars, settingsVars, bufferVars, runVars,
               histories, historyLoading, selectedHistoryId, editVars,
               historyMutation, streams, requests, saves, loads, deletes,
               renames, serverVars >>

UpdateMessage(k, content) ==
  /\ k \in 1..Len(messages)
  /\ MayAct /\ Acted
  /\ messages' = [m \in 1..Len(messages) |->
                    IF messages[m].id = messages[k].id
                    THEN [messages[m] EXCEPT !.content = content]
                    ELSE messages[m]]
  /\ variables' = VariablesEffect(variables, messages', variablePrefix, variableSuffix)
  /\ UNCHANGED << variableValues, variablePrefix, variableSuffix >>
  /\ PlayFrame

AddMessage(role) ==
  /\ MayAct /\ Acted
  /\ messages' = Append(messages, Message(Mid(role, Now), role, << >>))
  /\ variables' = VariablesEffect(variables, messages', variablePrefix, variableSuffix)
  /\ UNCHANGED << variableValues, variablePrefix, variableSuffix >>
  /\ PlayFrame

RemoveMessage(k) ==
  /\ k \in 1..Len(messages)
  /\ MayAct /\ Acted
  /\ messages' = SelectSeq(messages, LAMBDA m : m.id # messages[k].id)
  /\ variables' = VariablesEffect(variables, messages', variablePrefix, variableSuffix)
  /\ UNCHANGED << variableValues, variablePrefix, variableSuffix >>
  /\ PlayFrame

Splice(items, k) == SubSeq(items, 1, k - 1) \o SubSeq(items, k + 1, Len(items))
InsertAt(items, k, item) == SubSeq(items, 1, k - 1) \o << item >> \o SubSeq(items, k, Len(items))

HandleDragEnd(source, destination) ==
  /\ source \in 1..Len(messages)
  /\ destination \in 1..Len(messages)
  /\ source # destination
  /\ MayAct /\ Acted
  /\ messages' = InsertAt(Splice(messages, source), destination, messages[source])
  /\ variables' = VariablesEffect(variables, messages', variablePrefix, variableSuffix)
  /\ UNCHANGED << variableValues, variablePrefix, variableSuffix >>
  /\ PlayFrame

SetVariableValue(k, value) ==
  /\ k \in 1..Len(variables)
  /\ MayAct /\ Acted
  /\ variableValues' = [v \in DOMAIN variableValues \cup {variables[k]} |->
                          IF v = variables[k] THEN value ELSE variableValues[v]]
  /\ UNCHANGED << messages, variables, variablePrefix, variableSuffix >>
  /\ PlayFrame

SetVariablePrefix(p) ==
  /\ MayAct /\ Acted
  /\ variablePrefix' = p
  /\ variables' = VariablesEffect(variables, messages, variablePrefix', variableSuffix)
  /\ UNCHANGED << messages, variableValues, variableSuffix >>
  /\ PlayFrame

SetVariableSuffix(q) ==
  /\ MayAct /\ Acted
  /\ variableSuffix' = q
  /\ variables' = VariablesEffect(variables, messages, variablePrefix, variableSuffix')
  /\ UNCHANGED << messages, variableValues, variablePrefix >>
  /\ PlayFrame

StreamIds == 1..Len(streams)

StreamStep ==
  \/ \E s \in StreamIds, body \in Bodies : FetchOk(s, body)
  \/ \E s \in StreamIds, msg \in FailureMessages : FetchFails(s, msg)
  \/ \E s \in StreamIds : \E n \in 1..Len(streams[s].wire) : ReadChunk(s, n)
  \/ \E s \in StreamIds : ReadDone(s)
  \/ \E s \in StreamIds : ReadFails(s)

SaveStep ==
  \/ \E q \in saves : ServerSave(q)
  \/ \E q \in saves : SaveDone(q)
  \/ \E q \in saves : SaveFail(q)

LoadStep ==
  \/ \E q \in loads : ServerLoad(q)
  \/ \E q \in loads : LoadDone(q)
  \/ \E q \in loads : LoadFail(q)

ProviderStep ==
  \/ \E list \in {<< >>, << "provider-1" >>} : LoadProvidersDone(list)
  \/ LoadProvidersFail

HistoryStep ==
  \/ HandleHistoryRefresh
  \/ \E i \in Rows : HandleHistorySelect(i)
  \/ HandleStartNewTest
  \/ \E i \in Rows, t \in TypedTitles : StartHistoryTitleEdit(i, t)
  \/ CancelHistoryTitleEdit
  \/ HandleHistoryTitleSave
  \/ \E q \in renames : RenameDone(q)
  \/ \E q \in renames : RenameFail(q)
  \/ \E i \in Rows : HandleHistoryDelete(i)
  \/ \E q \in deletes : DeleteDone(q)
  \/ \E q \in deletes : DeleteFail(q)

Next ==
  \/ HandleTestStart
  \/ HandleTestStop
  \/ StreamStep
  \/ SaveStep
  \/ LoadStep
  \/ HistoryStep

Spec == Init /\ [][Next]_vars

NextStream ==
  \/ ProviderStep
  \/ HandleTestStart
  \/ HandleTestStop
  \/ StreamStep
  \/ SaveStep
  \/ LoadStep

SpecStream == InitStream /\ [][NextStream]_vars

(***************************************************************************)
(* The page with templates and values already typed in, and a test started *)
(* on them.                                                                *)
(***************************************************************************)
NameA == << "a" >>
NameB == << "b" >>
Placeholder(name) == DefaultPrefix \o name \o DefaultSuffix

TypedTemplates ==
  { Placeholder(NameA),
    DefaultPrefix \o << " " >> \o NameA \o << " " >> \o DefaultSuffix,
    Placeholder(NameA) \o Placeholder(NameB),
    Placeholder(NameB) \o Placeholder(NameA),
    Placeholder(NameA) \o Placeholder(NameA),
    << "u" >> \o Placeholder(NameA) \o << "v" >>,
    DefaultPrefix \o NameA \o << "}" >>,
    << "u" >> }

ValuesOfA == {<< >>, << "x" >>, Placeholder(NameB), << "$", "&" >>, << "$", "$" >>}
ValuesOfB == {<< >>, << "y" >>, Placeholder(NameA)}

TypedValueMaps ==
  {[v \in D |-> IF v = NameA THEN va ELSE vb] :
     D \in SUBSET {NameA, NameB}, va \in ValuesOfA, vb \in ValuesOfB}

InitSubst ==
  /\ InitRun
  /\ BackendIdle
  /\ SettingsIdle
  /\ id # ""
  /\ transport = "event"
  /\ providers = << "provider-1" >>
  /\ providerLoading = FALSE
  /\ \E template \in TypedTemplates :
       messages = [LoadedMessages EXCEPT ![2].content = template]
  /\ variablePrefix = DefaultPrefix
  /\ variableSuffix = DefaultSuffix
  /\ variables = VariablesEffect(<< >>, messages, variablePrefix, variableSuffix)
  /\ variableValues \in TypedValueMaps

NextSubst ==
  \/ HandleTestStart
  \/ \E k \in 1..Len(messages), content \in TypedContents : UpdateMessage(k, content)
  \/ \E k \in 1..Len(variables), value \in TypedValues : SetVariableValue(k, value)

SpecSubst == InitSubst /\ [][NextSubst]_vars

(***************************************************************************)
(* The page with its message editor: what the user edits while a test      *)
(* runs, and what the test's closure keeps.                                *)
(***************************************************************************)
PlayStep ==
  \/ \E k \in 1..Len(messages), content \in TypedContents : UpdateMessage(k, content)
  \/ \E role \in {"user", "assistant"} : AddMessage(role)
  \/ \E k \in 1..Len(messages) : RemoveMessage(k)
  \/ \E source, destination \in 1..Len(messages) : HandleDragEnd(source, destination)
  \/ \E k \in 1..Len(variables), value \in TypedValues : SetVariableValue(k, value)
  \/ \E p \in TypedDelimiters : SetVariablePrefix(p)
  \/ \E q \in TypedDelimiters : SetVariableSuffix(q)

InitPlay ==
  /\ InitPage
  /\ BackendIdle
  /\ SettingsIdle
  /\ id # ""
  /\ transport = "event"
  /\ providers = << "provider-1" >>
  /\ providerLoading = FALSE

NextPlay ==
  \/ HandleTestStart
  \/ StreamStep
  \/ SaveStep
  \/ LoadStep
  \/ PlayStep
  \/ \E i \in Rows : HandleHistorySelect(i)

SpecPlay == InitPlay /\ [][NextPlay]_vars

(***************************************************************************)
(* The server on its own: requests of the project and prompt endpoints     *)
(* against an empty database, the page idle.                               *)
(***************************************************************************)
ImportedVersions ==
  { << "1", ".", "2", ".", "3" >>, << "0", ".", "9", ".", "9" >>,
    << "1", ".", "2" >>, << "1", ".", "a", ".", "3" >>, << "1", ".", ".", "3" >>,
    << >> }

StoredContents == { << >>, << "a" >>, << "a", " ", "b" >> }
SentContents == { << "a", " ", "b" >>, << "b", " ", "a", " ", "c" >> }

InitServer ==
  /\ InitPage
  /\ BackendIdle
  /\ SettingsIdle
  /\ id = ""
  /\ transport = "whole"
  /\ providers = << >>
  /\ providerLoading = FALSE

NextServer ==
  \/ CreateProject
  \/ \E project \in 1..MaxRequests : DeleteProject(project)
  \/ \E project \in 1..MaxRequests, content \in StoredContents :
       CreatePrompt(project, content)
  \/ \E project \in 1..MaxRequests, version \in ImportedVersions,
        content \in StoredContents : ImportPrompt(project, version, content)
  \/ \E pid \in 1..MaxRequests, content \in SentContents, bump \in BumpKinds :
       UpdatePrompt(pid, content, bump)
  \/ \E pid \in 1..MaxRequests, bump \in BumpKinds \ {"none"} : RollbackPrompt(pid, bump)
  \/ \E pid \in 1..MaxRequests : DeletePrompt(pid)
  \/ \E pid \in 1..MaxRequests, targetId \in 1..MaxRequests : GetPromptDiff(pid, targetId)

SpecServer == InitServer /\ [][NextServer]_vars

(***************************************************************************)
(* One test whose body is a single line, read in one piece.                *)
(***************************************************************************)
InitLine ==
  /\ InitPage
  /\ BackendIdle
  /\ SettingsIdle
  /\ transport = "whole"
  /\ providers = << >>
  /\ providerLoading = TRUE

SpecLine == InitLine /\ [][NextStream]_vars

(***************************************************************************)
(* The Settings page on its own: the page is opened on a backend that has  *)
(* the /llm-providers endpoint and holds one of a few provider lists.      *)
(***************************************************************************)
Filled(pid, isDefault) == Provider(pid, << "k" >>, << "k" >>, << "k" >>, isDefault)

StoredLists ==
  { << >>,
    << Filled(<< "a" >>, TRUE) >>,
    << Filled(<< "a" >>, FALSE), Filled(<< "b" >>, FALSE) >>,
    << Filled(<< "a" >>, FALSE), Filled(<< "b" >>, TRUE) >>,
    << Filled(<< "a" >>, TRUE), Filled(<< "b" >>, TRUE) >>,
    << Filled(<< "a" >>, FALSE), Filled(<< "a" >>, FALSE) >>,
    << Filled(<< "a" >>, FALSE), Filled(<< "b" >>, FALSE), Filled(<< "c" >>, TRUE) >> }

TypedFields == { << "k" >>, << " " >> }
ProviderIds == {settingsPage.providers[i].id : i \in 1..Len(settingsPage.providers)}

InitIdle ==
  /\ InitPage
  /\ BackendIdle
  /\ id = ""
  /\ transport = "whole"
  /\ providers = << >>
  /\ providerLoading = FALSE

InitSettings ==
  /\ InitIdle
  /\ settingsPage = [loading |-> TRUE, saving |-> FALSE, providers |-> << >>,
                     error |-> FALSE, alerts |-> 0, created |-> 0, ops |-> 0]
  /\ settingsRequests = {[kind |-> "get"]}
  /\ \E list \in StoredLists :
       llmBackend = [legacy |-> FALSE, providers |-> list, settings |-> NoSettings]
  /\ llmReply = NoLlmReply

NextSettings ==
  \/ \E status \in EndpointStatuses, settingsStatus \in SettingsStatuses :
       fetchProviders(status, settingsStatus)
  \/ \E pid \in ProviderIds, field \in {"name", "api_key", "model"}, value \in TypedFields :
       updateProviderField(pid, field, value)
  \/ \E pid \in ProviderIds : handleSetDefault(pid)
  \/ \E pid \in ProviderIds : handleRemoveProvider(pid)
  \/ handleAddProvider
  \/ handleSubmit
  \/ \E q \in settingsRequests, status \in EndpointStatuses,
        settingsStatus \in SettingsStatuses : handleSubmitDone(q, status, settingsStatus)

SpecSettings == InitSettings /\ [][NextSettings]_vars

(***************************************************************************)
(* The provider calls on their own, against a backend with or without the  *)
(* /llm-providers endpoint whose settings hold some provider keys.         *)
(***************************************************************************)
SavedLists ==
  { << >>,
    << Filled(<< "a" >>, TRUE) >>,
    << Provider(<< "a", Quote >>, << Backslash >>, << "k", Backslash, Quote >>,
                << ",", "}" >>, FALSE) >>,
    << Filled(<< "a" >>, FALSE), Filled(<< "b" >>, TRUE) >> }

StoredSettings ==
  { NoSettings,
    [llm_providers |-> << >>, aliyun_api_key |-> << "k" >>],
    [llm_providers |-> << "x" >>, aliyun_api_key |-> << "k" >>],
    [llm_providers |-> << "{", "}" >>, aliyun_api_key |-> << >>],
    [llm_providers |-> JsonStringify(<< Filled(<< "c" >>, TRUE) >>),
     aliyun_api_key |-> << "k" >>] }

InitLegacy ==
  /\ InitIdle
  /\ settingsPage = [loading |-> TRUE, saving |-> FALSE, providers |-> << >>,
                     error |-> FALSE, alerts |-> 0, created |-> 0, ops |-> 0]
  /\ settingsRequests = {}
  /\ \E legacy \in BOOLEAN, settings \in StoredSettings :
       llmBackend = [legacy |-> legacy, providers |-> << >>, settings |-> settings]
  /\ llmReply = NoLlmReply

NextLegacy ==
  \/ \E list \in SavedLists, status \in EndpointStatuses,
        settingsStatus \in SettingsStatuses : ApiSave(list, status, settingsStatus)
  \/ \E status \in EndpointStatuses, settingsStatus \in SettingsStatuses :
       ApiGet(status, settingsStatus)

SpecLegacy == InitLegacy /\ [][NextLegacy]_vars

(***************************************************************************)
(* Properties.                                                             *)
(***************************************************************************)
Completed(s) == streams[s].status = "completed"

DataTexts(calls) ==
  LET data == SelectSeq(calls, LAMBDA c : c.kind = "data")
  IN [i \in 1..Len(data) |-> data[i].text]

Delivered(s) == Flatten(DataTexts(streams[s].calls))

\* C1 (as claimed): a stream read to its end made one onData call per
\* non-empty data: line of its body, in the order of the lines, and then one
\* onComplete call, whatever the reads were.
C1_OneCallPerDataLine ==
  \A s \in StreamIds :
    Completed(s) =>
      streams[s].calls = DataCalls(ProcessLines(Split(streams[s].body)))
                         \o << CompleteCall >>

\* C2 (as claimed): when the body is the events data: {"text": t_i}, the
\* response buffer at completion is t_1 ... t_n, whatever the reads were.
C2_BufferIsTheTexts ==
  \A s \in StreamIds : \A texts \in {TextsTwo, TextsBlank, TextsNone} :
    (Completed(s) /\ streams[s].body = EventsOf(texts))
      => streams[s].completedWith = Flatten(texts)

\* C3 (as claimed): an upstream error relayed as an error event is reported
\* through onError; its message is never given to onData, so it is neither
\* in the response buffer nor saved as the response of a history record.
C3_ErrorEventReported ==
  \A s \in StreamIds :
    streams[s].body = BodyError =>
      /\ \A i \in 1..Len(streams[s].calls) :
           streams[s].calls[i].kind = "data" => streams[s].calls[i].text # UpstreamError
      /\ Completed(s) =>
           /\ \E i \in 1..Len(streams[s].calls) : streams[s].calls[i].kind = "error"
           /\ streams[s].saveReqs = 0

\* C4: at most one test stream is active at any time, so no stream is opened
\* while another one is active.
C4_OneActiveStream ==
  Cardinality({s \in StreamIds : Active(streams[s])}) <= 1

C4_Witness ==
  /\ Len(streams) = 2
  /\ streams[1].status = "aborted"
  /\ Active(streams[2])
  /\ used.ops > 0

\* C5 (as claimed): the response saved for a test is the concatenation of the
\* chunks its stream delivered, whatever the user did meanwhile.
C5_SavedIsDelivered ==
  \A s \in StreamIds :
    streams[s].saveReqs > 0 => streams[s].completedWith = Delivered(s)

\* C6: once a test is stopped its stream calls no callback again, and no
\* history record is saved for it.
C6_SilentAfterStop ==
  \A s \in StreamIds :
    \A i \in 1..Len(streams[s].calls) :
      streams[s].calls[i].kind = "abort" =>
        /\ i = Len(streams[s].calls)
        /\ streams[s].status = "aborted"
        /\ streams[s].saveReqs = 0

C6_Witness ==
  /\ Len(streams) = 2
  /\ streams[1].status = "aborted"
  /\ Len(streams[1].calls) = 2
  /\ Completed(2)

\* C7 (as claimed): every completed test stream made exactly one save
\* request.
C7_EveryCompletionSaves ==
  \A s \in StreamIds : Completed(s) => streams[s].saveReqs = 1

\* C7 (amended): a completed test stream made exactly one save request when
\* the page has a prompt id and the response accumulated at completion has a
\* non-whitespace character, and none otherwise; a stream that did not
\* complete made none.
C7_CompletionSavesNonBlank ==
  \A s \in StreamIds :
    streams[s].saveReqs =
      IF /\ Completed(s)
         /\ id # ""
         /\ \E i \in 1..Len(streams[s].completedWith) :
              ~IsWhitespace(streams[s].completedWith[i])
      THEN 1 ELSE 0

C7_Witness ==
  \E s \in StreamIds :
    /\ Completed(s)
    /\ streams[s].completedWith = << "a", "b" >>
    /\ streams[s].saveReqs = 1

\* C8: the histories list never holds more than 30 records; a completed save
\* puts the saved record first, and when the list would exceed 30 the record
\* dropped is the last one, which is the oldest of the list.
SaveCompletes(q) ==
  /\ q \in saves /\ q.phase = "stored" /\ q \notin saves'
  /\ (histories' # histories \/ selectedHistoryId' # selectedHistoryId)

C8_SaveStep ==
  \A q \in saves :
    SaveCompletes(q) =>
      LET saved == HistoryRecord(q.hid, q.response, "auto")
          rest  == SelectSeq(histories, LAMBDA item : item.id # q.hid)
      IN /\ histories'[1] = saved
         /\ IF Len(rest) < HistoryLimit
            THEN histories' = << saved >> \o rest
            ELSE /\ histories' = << saved >> \o SubSeq(rest, 1, Len(rest) - 1)
                 /\ \A i \in 1..Len(rest) : rest[Len(rest)].id <= rest[i].id

C9_RefusedState ==
  \A s \in StreamIds :
    streams[s].status = "refused" =>
      /\ Len(streams[s].calls) = 1
      /\ streams[s].calls[1].kind = "error"
      /\ streams[s].calls[1].msg \in FailureMessages
      /\ streams[s].saveReqs = 0

C9_RefusedStep ==
  \A s \in StreamIds :
    (streams[s].status = "pending" /\ streams'[s].status = "refused")
      => (loading' = FALSE /\ streamAbort' = 0 /\ saves' = saves)

C9_FailureBeforeData ==
  /\ []C9_RefusedState
  /\ [][C9_RefusedStep]_vars

C9_Witness ==
  /\ Len(streams) = 2
  /\ streams[1].status = "aborted"
  /\ streams[2].status = "refused"
  /\ streams[2].calls = << ErrorCall("Response body is not readable") >>
  /\ loading = FALSE
  /\ streamAbort = 0

\* C10: every start of a test issues exactly one request to /test-prompt and
\* nothing else issues one: a request is sent only in a step in which the
\* user starts a test.
C10_RequestStep ==
  requests' # requests =>
    /\ requests' = requests + 1
    /\ used'.starts = used.starts + 1
    /\ ~loading /\ loading'

C10_OneRequestPerStart ==
  /\ [](requests = used.starts)
  /\ [][C10_RequestStep]_vars

C10_Witness ==
  /\ requests = 2
  /\ streams[1].status = "refused"
  /\ streams[2].status = "broken"

\* The content the claim describes: every placeholder of an extracted
\* variable replaced, in one pass over the template, by the variable's value
\* taken literally.
RECURSIVE ClaimedFrom(_, _, _, _, _, _)
ClaimedFrom(s, i, names, values, p, q) ==
  IF i > Len(s) THEN << >>
  ELSE LET hits == {k \in 1..Len(names) : NameMatches(s, i, p, names[k], q) # {}} IN
       IF hits = {} THEN << s[i] >> \o ClaimedFrom(s, i + 1, names, values, p, q)
       ELSE LET k == CHOOSE h \in hits : \A g \in hits : h <= g
                t == PreferredName(NameMatches(s, i, p, names[k], q))
            IN ValueOf(values, names[k])
               \o ClaimedFrom(s, i + Len(p) + t[1] + Len(names[k]) + t[2] + Len(q),
                              names, values, p, q)

\* C11 (as claimed): the messages a test sends are the templates with every
\* placeholder of every extracted variable replaced simultaneously by the
\* variable's value (empty when there is none); substituted text is not
\* substituted again, and roles and order are those of the templates.
C11_SimultaneousSubstitution ==
  \A t \in 1..Len(tests) :
    LET test == tests[t] IN
    /\ Len(test.apiMessages) = Len(test.messageSnapshot)
    /\ \A i \in 1..Len(test.apiMessages) :
         /\ test.apiMessages[i].role = test.messageSnapshot[i].role
         /\ test.apiMessages[i].content =
              ClaimedFrom(test.messageSnapshot[i].content, 1, test.variables,
                          test.variableValues, test.variablePrefix, test.variableSuffix)

\* C12: the messages of a test's history record are the page's messages at
\* the start of the test (ids, roles, contents with their placeholders, in
\* order): the snapshot taken at the start equals them, no later step changes
\* it, and the save request and the stored record carry it.
C12_SnapshotSaved ==
  /\ \A q \in saves :
       /\ q.payload.messages = tests[q.test].messageSnapshot
       /\ q.phase = "stored" => payloads[q.hid].messages = q.payload.messages
  /\ \A h \in (HistoryLimit + 1)..Len(payloads) :
       \E t \in 1..Len(tests) : payloads[h].messages = tests[t].messageSnapshot

C12_SnapshotStep ==
  /\ \A t \in 1..Len(tests) : t <= Len(tests') /\ tests'[t] = tests[t]
  /\ Len(tests') > Len(tests) =>
       /\ Len(tests') = Len(tests) + 1
       /\ tests'[Len(tests')].messageSnapshot = messages
  /\ \A h \in 1..Len(payloads) : h <= Len(payloads') /\ payloads'[h] = payloads[h]

C12_MessagesAsStarted ==
  /\ []C12_SnapshotSaved
  /\ [][C12_SnapshotStep]_vars

C12_Witness ==
  \E q \in saves :
    /\ q.phase = "stored"
    /\ payloads[q.hid].messages # messages
    /\ payloads[q.hid].messages # LoadedMessages
    /\ \E i \in 1..Len(q.payload.messages) :
         tests[q.test].apiMessages[i].content # q.payload.messages[i].content


(***************************************************************************)
(* Requests handled by the server, as seen in a step.                      *)
(***************************************************************************)
Handled(kind) == reply'.n = reply.n + 1 /\ reply'.request.kind = kind
Accepted == reply'.status = StatusOk
VersionAfter(pid) == (CHOOSE p \in prompts' : p.id = pid).version

VersionLess(a, b) ==
  LET x == ParseVersion(a)
      y == ParseVersion(b)
  IN \/ x.major < y.major
     \/ x.major = y.major /\ x.minor < y.minor
     \/ x.major = y.major /\ x.minor = y.minor /\ x.patch < y.patch

(***************************************************************************)
(* C13: an accepted update with bump major turns M.m.p into (M+1).0.0,     *)
(* minor into M.(m+1).0, patch into M.m.(p+1), none leaves the version as  *)
(* it was; 1.2.3 with bump minor becomes 1.3.0.                            *)
(***************************************************************************)
C13_Step ==
  Handled("update") /\ Accepted =>
    LET pid  == reply'.request.target
        bump == reply'.request.bump
        old  == ParseVersion(PromptOf(pid).version)
        new  == VersionAfter(pid)
    IN /\ bump = "none" => new = PromptOf(pid).version
       /\ bump # "none" =>
            /\ WellFormed(new)
            /\ ParseVersion(new) =
                 CASE bump = "major" -> [major |-> old.major + 1, minor |-> 0, patch |-> 0]
                   [] bump = "minor" -> [major |-> old.major, minor |-> old.minor + 1, patch |-> 0]
                   [] bump = "patch" -> [major |-> old.major, minor |-> old.minor,
                                         patch |-> old.patch + 1]
       /\ bump = "minor" /\ PromptOf(pid).version = << "1", ".", "2", ".", "3" >>
            => new = << "1", ".", "3", ".", "0" >>

C13_BumpRules == [][C13_Step]_vars

C13_Witness ==
  /\ reply.request.kind = "update"
  /\ reply.request.bump = "minor"
  /\ reply.status = StatusOk
  /\ \E p \in prompts : p.id = reply.request.target
                        /\ p.version = << "1", ".", "3", ".", "0" >>

(***************************************************************************)
(* C14: across updates and rollbacks the version of a prompt never         *)
(* decreases in semantic-version order, and it strictly increases on every *)
(* accepted major, minor or patch bump and on every accepted rollback.     *)
(***************************************************************************)
C14_Step ==
  /\ \A pid \in PromptIds \cap PromptIds' :
       \/ VersionAfter(pid) = PromptOf(pid).version
       \/ /\ WellFormed(PromptOf(pid).version)
          /\ WellFormed(VersionAfter(pid))
          /\ VersionLess(PromptOf(pid).version, VersionAfter(pid))
  /\ /\ Accepted
     /\ \/ Handled("update") /\ reply'.request.bump # "none"
        \/ Handled("rollback")
     => /\ WellFormed(VersionAfter(reply'.request.target))
        /\ VersionLess(PromptOf(reply'.request.target).version,
                       VersionAfter(reply'.request.target))

C14_VersionMonotonic == [][C14_Step]_vars

C14_Witness ==
  /\ reply.request.kind = "rollback"
  /\ reply.status = StatusOk
  /\ \E p \in prompts : p.id = reply.request.target
                        /\ p.version = << "0", ".", "1", "0", ".", "0" >>

(***************************************************************************)
(* C15: an accepted update with bump none leaves the version unchanged and *)
(* appends exactly one history entry, an entry of the updated prompt.      *)
(***************************************************************************)
C15_Step ==
  Handled("update") /\ Accepted /\ reply'.request.bump = "none" =>
    LET pid == reply'.request.target
    IN /\ VersionAfter(pid) = PromptOf(pid).version
       /\ Len(promptHistory') = Len(promptHistory) + 1
       /\ SubSeq(promptHistory', 1, Len(promptHistory)) = promptHistory
       /\ promptHistory'[Len(promptHistory')].prompt_id = pid

C15_NoneRecordsHistory == [][C15_Step]_vars

C15_Witness ==
  /\ reply.request.kind = "update"
  /\ reply.request.bump = "none"
  /\ reply.status = StatusOk
  /\ promptHistory # << >>
  /\ promptHistory[Len(promptHistory)].operation = "update"
  /\ promptHistory[Len(promptHistory)].id = reply.n

(***************************************************************************)
(* C16: an update of a prompt whose stored version is malformed is         *)
(* answered with a 4xx status, which the client's request wrapper throws,  *)
(* and the version, content and history stay as they were.                 *)
(***************************************************************************)
C16_Step ==
  /\ Handled("update")
  /\ reply'.request.target \in PromptIds
  /\ ~WellFormed(PromptOf(reply'.request.target).version)
  => /\ reply'.status >= 400
     /\ reply'.status < 500
     /\ reply'.thrown
     /\ UNCHANGED << prompts, promptHistory >>

C16_MalformedRejected == [][C16_Step]_vars

C16_Witness ==
  /\ reply.request.kind = "update"
  /\ reply.status = StatusBadRequest
  /\ reply.thrown
  /\ \E p \in prompts : p.id = reply.request.target /\ ~WellFormed(p.version)

(***************************************************************************)
(* C17: after a project is deleted no prompt of it remains, and every      *)
(* stored prompt refers to a project that exists.                          *)
(***************************************************************************)
C17_Referential == \A p \in prompts : p.project_id \in projects

C17_Step ==
  Handled("deleteProject") /\ Accepted =>
    /\ reply'.request.target \notin projects'
    /\ \A p \in prompts' : p.project_id # reply'.request.target

C18_Step ==
  LET kept == SelectSeq(promptHistory, LAMBDA e : e.prompt_id \in PromptIds')
  IN /\ Len(promptHistory') >= Len(kept)
     /\ SubSeq(promptHistory', 1, Len(kept)) = kept

C18_AppendOnly == [][C18_Step]_vars

C18_Witness ==
  /\ reply.request.kind = "rollback"
  /\ reply.status = StatusOk
  /\ Len(EntriesOf(reply.request.target)) = 3

(***************************************************************************)
(* C19: the diff of a content with itself reports zero additions, zero     *)
(* deletions and a change rate of zero.                                    *)
(***************************************************************************)
C19_SelfDiffZero ==
  reply.request.kind = "diff" /\ reply.status = StatusOk =>
    LET pid      == reply.request.target[1]
        targetId == reply.request.target[2]
    IN PromptOf(pid).content = PromptOf(targetId).content =>
         /\ reply.body.additions = 0
         /\ reply.body.deletions = 0
         /\ reply.body.change_rate = 0

C19_Witness ==
  /\ reply.request.kind = "diff"
  /\ reply.status = StatusOk
  /\ reply.request.target[1] # reply.request.target[2]
  /\ PromptOf(reply.request.target[1]).content = PromptOf(reply.request.target[2]).content
  /\ Len(Words(PromptOf(reply.request.target[1]).content)) = 2


(***************************************************************************)
(* The per-line rule as stated: a line is taken as it stands between two   *)
(* line ends; only one leading space of the payload is removed.            *)
(***************************************************************************)
ClaimedCalls(line) ==
  IF Trim(line) = << >> \/ ~StartsWith(line, DataTag) THEN << >>
  ELSE LET data    == Substring(line, Len(DataTag))
           payload == IF StartsWith(data, << " " >>) THEN Substring(data, 1) ELSE data
           json    == JsonTextMember(payload)
       IN IF payload = << >> THEN << >>
          ELSE IF json.ok THEN << json.text >>
          ELSE << payload >>

RECURSIVE ClaimedLines(_)
ClaimedLines(lines) ==
  IF lines = << >> THEN << >>
  ELSE ClaimedCalls(Head(lines)) \o ClaimedLines(Tail(lines))

(***************************************************************************)
(* C20: for each non-blank line that starts with data: the payload, less   *)
(* one optional leading space, is handed to onData as the text member when *)
(* it is a JSON object with one, raw otherwise; other lines and data lines *)
(* with an empty payload make no onData call.                              *)
(***************************************************************************)
C20_PerLineParsing ==
  \A s \in 1..Len(streams) :
    Completed(s) =>
      DataTexts(streams[s].calls) = ClaimedLines(Split(streams[s].body))


(***************************************************************************)
(* The names between the delimiters as stated: from the left, each prefix  *)
(* with the nearest suffix that leaves at least one character between      *)
(* them; none when a delimiter is empty.                                   *)
(***************************************************************************)
OccursAt(s, i, d) == i + Len(d) - 1 <= Len(s) /\ SubSeq(s, i, i + Len(d) - 1) = d

RECURSIVE ClaimedNamesFrom(_, _, _, _)
ClaimedNamesFrom(s, i, p, q) ==
  IF i > Len(s) THEN {}
  ELSE LET ends == {k \in (i + Len(p) + 1)..Len(s) : OccursAt(s, k, q)} IN
       IF ~OccursAt(s, i, p) \/ ends = {} THEN ClaimedNamesFrom(s, i + 1, p, q)
       ELSE LET k == CHOOSE e \in ends : \A f \in ends : e <= f
            IN {Trim(SubSeq(s, i + Len(p), k - 1))}
               \cup ClaimedNamesFrom(s, k + Len(q), p, q)

ClaimedVariables(msgs, p, q) ==
  IF p = << >> \/ q = << >> THEN {}
  ELSE UNION {ClaimedNamesFrom(msgs[i].content, 1, p, q) : i \in 1..Len(msgs)}

(***************************************************************************)
(* C21: the variables list holds, without duplicates, exactly the trimmed  *)
(* names that occur between prefix and suffix in the current messages; it  *)
(* is empty when the prefix or the suffix is empty.                        *)
(***************************************************************************)
C21_VariablesFollowMessages ==
  /\ {variables[i] : i \in 1..Len(variables)}
       = ClaimedVariables(messages, variablePrefix, variableSuffix)
  /\ \A i, j \in 1..Len(variables) : variables[i] = variables[j] => i = j


(***************************************************************************)
(* Save requests of the Settings page and the defaults of a list.          *)
(***************************************************************************)
SaveRequests == {q \in settingsRequests : q.kind = "save"}
Defaults(list) == {i \in 1..Len(list) : list[i].is_default}

(***************************************************************************)
(* C22: when exactly one provider is marked default, the list that         *)
(* handleSubmit sends has that same provider, and only it, as the default, *)
(* whatever its position.                                                  *)
(***************************************************************************)
C22_DefaultKept ==
  \A q \in SaveRequests :
    Cardinality(Defaults(q.from)) = 1 => Defaults(q.normalized) = Defaults(q.from)

(***************************************************************************)
(* C23: for a non-empty list normalizeProviders returns a list of the same *)
(* length and order with exactly one default and every other field         *)
(* unchanged, and applying it again changes nothing.                       *)
(***************************************************************************)
C23_NormalizeProviders ==
  \A q \in SaveRequests :
    q.from # << >> =>
      /\ Len(q.normalized) = Len(q.from)
      /\ \A i \in 1..Len(q.from) :
           [q.normalized[i] EXCEPT !.is_default = FALSE]
             = [q.from[i] EXCEPT !.is_default = FALSE]
      /\ Cardinality(Defaults(q.normalized)) = 1
      /\ normalizeProviders(q.normalized) = q.normalized

C23_Witness ==
  \E q \in SaveRequests :
    /\ Cardinality(Defaults(q.from)) = 2
    /\ Cardinality(Defaults(q.normalized)) = 1


(***************************************************************************)
(* C24: selectedHistoryId is at all times null or the id of a record of    *)
(* the histories list.                                                     *)
(***************************************************************************)
C24_SelectionListed ==
  selectedHistoryId = 0 \/ \E i \in 1..Len(histories) : histories[i].id = selectedHistoryId


(***************************************************************************)
(* C25: whenever a history record is selected, the displayed response      *)
(* buffer equals the response of that record.                              *)
(***************************************************************************)
C25_ResponseOfSelection ==
  \A i \in 1..Len(histories) :
    histories[i].id = selectedHistoryId => response = histories[i].response


(***************************************************************************)
(* C26: loading is true exactly when a test stream is active (started and  *)
(* not yet completed, failed or aborted), and streamAbort is non-null      *)
(* exactly when loading is true.                                           *)
(***************************************************************************)
C26_LoadingIffActive ==
  /\ loading <=> \E s \in 1..Len(streams) : Active(streams[s])
  /\ streamAbort # 0 <=> loading

C26_Witness ==
  /\ \E s \in 1..Len(streams) : streams[s].status = "completed"
  /\ \E s \in 1..Len(streams) : streams[s].status = "aborted"
  /\ ~loading
  /\ streamAbort = 0


(***************************************************************************)
(* C27: once the Settings page has loaded its provider list is never       *)
(* empty: a fetch that returns no provider or fails, and a removal that    *)
(* leaves no provider, each give one blank provider marked default, and    *)
(* adding a provider keeps the ones that were there.                       *)
(***************************************************************************)
BlankDefaultList(list) ==
  /\ Len(list) = 1
  /\ list[1].name = << >> /\ list[1].api_key = << >> /\ list[1].model = << >>
  /\ list[1].is_default

C27_Loaded == ~settingsPage.loading => settingsPage.providers # << >>

C27_Step ==
  /\ llmReply'.n # llmReply.n /\ llmReply'.op = "get"
       /\ (llmReply'.thrown \/ llmReply'.result = << >>)
       => BlankDefaultList(settingsPage'.providers)
  /\ settingsPage'.ops # settingsPage.ops /\ settingsPage'.created # settingsPage.created
       /\ Len(settingsPage'.providers) <= Len(settingsPage.providers)
       => BlankDefaultList(settingsPage'.providers)
  /\ settingsPage'.ops # settingsPage.ops /\ settingsPage'.created # settingsPage.created
       /\ Len(settingsPage'.providers) > Len(settingsPage.providers)
       => SubSeq(settingsPage'.providers, 1, Len(settingsPage.providers))
            = settingsPage.providers

C27_NeverEmpty == []C27_Loaded /\ [][C27_Step]_vars

C27_Witness ==
  /\ llmReply.op = "get"
  /\ llmReply.result # << >>
  /\ settingsPage.ops = 1
  /\ settingsPage.created = 1
  /\ BlankDefaultList(settingsPage.providers)

(***************************************************************************)
(* C28: handleSubmit issues a save request only if every provider has a    *)
(* non-blank name, api_key and model; when validation rejects the list or  *)
(* the save request fails the providers are left unchanged; saving is      *)
(* false again once handleSubmit has finished.                             *)
(***************************************************************************)
C28_Saving == settingsPage.saving <=> SaveRequests # {}

C28_Step ==
  /\ \A q \in SaveRequests' \ SaveRequests :
       /\ q.from = settingsPage.providers
       /\ \A i \in 1..Len(q.from) :
            /\ Trim(q.from[i].name) # << >>
            /\ Trim(q.from[i].api_key) # << >>
            /\ Trim(q.from[i].model) # << >>
  /\ settingsPage'.ops # settingsPage.ops /\ settingsPage'.alerts # settingsPage.alerts
       => /\ settingsPage'.providers = settingsPage.providers
          /\ SaveRequests' = SaveRequests
          /\ ~settingsPage'.saving
  /\ llmReply'.n # llmReply.n /\ llmReply'.op = "save"
       => /\ ~settingsPage'.saving
          /\ llmReply'.thrown =>
               /\ settingsPage'.providers = settingsPage.providers
               /\ llmBackend' = llmBackend

C28_SubmitGuarded == []C28_Saving /\ [][C28_Step]_vars

C28_Witness ==
  /\ llmReply.op = "save"
  /\ llmReply.thrown
  /\ ~settingsPage.saving
  /\ settingsPage.alerts = 2


(***************************************************************************)
(* C29: on a backend whose /llm-providers endpoint answers 404, a          *)
(* saveLLMProviders(L) followed by getLLMProviders() returns L, the empty  *)
(* list included, whatever the settings held before; for any other non-OK  *)
(* status both calls throw and the server keeps what it had.               *)
(***************************************************************************)
C29_Step ==
  /\ /\ llmReply.op = "save" /\ llmReply.status = StatusNotFound /\ ~llmReply.thrown
     /\ llmReply'.n # llmReply.n /\ llmReply'.op = "get"
     /\ llmReply'.status = StatusNotFound /\ ~llmReply'.thrown
     => llmReply'.result = llmReply.sent
  /\ /\ llmReply'.n # llmReply.n
     /\ llmReply'.status >= 300
     /\ llmReply'.status # StatusNotFound
     => llmReply'.thrown /\ llmBackend' = llmBackend

C29_LegacyRoundTrip == [][C29_Step]_vars

C29_Witness ==
  /\ llmReply.op = "get"
  /\ llmReply.status = StatusNotFound
  /\ ~llmReply.thrown
  /\ llmReply.n = 2
  /\ llmBackend.settings.aliyun_api_key # << >>
  /\ llmReply.result \in SavedLists
  /\ llmReply.result # << >>
  /\ llmReply.result[1].name = << Backslash >>


(***************************************************************************)
(* C30: when the delete request succeeds handleHistoryDelete removes       *)
(* exactly the deleted record from histories and clears the selection and  *)
(* the response if that record is selected; when the request fails,        *)
(* histories, selection and response stay as they were; historyMutation is *)
(* null afterwards.                                                        *)
(***************************************************************************)
C30_Step ==
  \A q \in deletes \ deletes' :
    /\ historyMutation' = NoMutation
    /\ IF store' # store
       THEN /\ histories' = SelectSeq(histories, LAMBDA item : item.id # q.hid)
            /\ IF selectedHistoryId = q.hid
               THEN selectedHistoryId' = 0 /\ response' = << >>
               ELSE UNCHANGED << selectedHistoryId, response >>
       ELSE UNCHANGED << histories, selectedHistoryId, response >>

C30_DeleteRemovesExactly == [][C30_Step]_vars

====
